---- MODULE Spec2Model ----
(***************************************************************************)
(* The x402 payment middleware (v2 multi-token engine, and the v1 engine   *)
(* documented in README.md) as a state machine: one middleware invocation  *)
(* per inbound request, the facilitator as the environment that answers    *)
(* the /verify and /settle calls.  Further specifications over the same   *)
(* actions: SpecChains (chain ids and credential versions of the           *)
(* environment's and the client's choosing), SpecBoot (the programs that   *)
(* construct the engine), SpecClient (the v2 client's request flow),       *)
(* SpecPayments (the clients' construction and signing of credentials),    *)
(* SpecWire (credentials that underpay or pay another address,             *)
(* connections that close), SpecExpiry (credentials whose validity window  *)
(* is over), SpecReplies (verify replies of every shape), SpecSelect (the  *)
(* v2 client's choice of route), SpecCalls (one call of either client),    *)
(* SpecLive (termination under fairness) and SpecProxy (the Besu RPC       *)
(* proxy of unnamed/part_000).                                             *)
(*                                                                         *)
(* JavaScript objects are functions from key names to values: a key that   *)
(* is undefined is absent from the DOMAIN.  Strings the code computes on   *)
(* (network identifiers, decimal numbers, URLs) are sequences of pieces;   *)
(* opaque strings (addresses, nonces, signatures) are TLA+ strings.        *)
(***************************************************************************)
EXTENDS Integers, Sequences, FiniteSets, TLC

VARIABLES
  cfg,          \* the X402Middleware instance's fields (set by the constructor)
  pc,           \* per request: "idle", "verifying" (awaiting axios.post /verify), "done"
  request,      \* per request: the inbound request (path, method, credential header)
  payments,     \* per request: the local `payment` (parsed credential) or NoPayment
  verifyCalls,  \* per request: the /verify payloads posted, in order
  verifyResult, \* per request: "none", "pending", "valid", "invalid", "error"
  settleCalls,  \* per request: the /settle payloads posted, in order
  settleState,  \* per request: "none", "pending", "ok", "failed"
  responses,    \* per request: the responses written to res, in order
  nextCalls,    \* per request: how many times next() was called
  x402Payment,  \* per request: req.x402Payment, or NoPayment
  settled,      \* facilitator: the (from, nonce) pairs it has settled on chain
  errorLog,     \* number of 'Settlement failed:' lines written by the .catch observer
  unhandled,    \* TRUE once a promise rejection was left without a handler
  server,       \* the merchant-server process: its environment and how far server.js ran
  client        \* the X402Client: one requestProtectedResource call, or the
                \* payments it has constructed and its clock

vars == <<cfg, pc, request, payments, verifyCalls, verifyResult, settleCalls,
          settleState, responses, nextCalls, x402Payment, settled, errorLog, unhandled,
          server, client>>

(***************************************************************************)
(* Bounds of the model.                                                    *)
(***************************************************************************)
NumReq == 2      \* inbound requests in one run
MaxClock == 2    \* seconds the client's clock advances
MaxBuilt == 2    \* payments one client constructs

Req == 1..NumReq

(***************************************************************************)
(* JavaScript helpers.                                                     *)
(***************************************************************************)
EmptyObj == [k \in {} |-> TRUE]
JsonNull == [jsonNull |-> TRUE]
NoPayment == [noPayment |-> TRUE]

Has(o, k) == k \in DOMAIN o
Drop(o, k) == [x \in DOMAIN o \ {k} |-> o[x]]
Put(o, k, v) == [x \in DOMAIN o \cup {k} |-> IF x = k THEN v ELSE o[x]]

\* o.k || {}
ObjOrEmpty(o, k) == IF Has(o, k) THEN o[k] ELSE EmptyObj

DigitChar == <<"0", "1", "2", "3", "4", "5", "6", "7", "8", "9">>

\* Number.prototype.toString(): the decimal digits of n
RECURSIVE NumToString(_)
NumToString(n) == IF n < 10 THEN <<DigitChar[n + 1]>>
               ELSE NumToString(n \div 10) \o <<DigitChar[(n % 10) + 1]>>

\* String.prototype.includes()
Includes(s, sub) ==
  \E i \in 0..(Len(s) - Len(sub)) : SubSeq(s, i + 1, i + Len(sub)) = sub

\* `eip155:${chainId}`
Caip2(chainId) == <<"e", "i", "p", "1", "5", "5", ":">> \o NumToString(chainId)

(***************************************************************************)
(* Server configuration (merchant-server/server.js) and the constructors.  *)
(***************************************************************************)
DailyLedgerChainId == 1337
UsdcChainId == 84532
\* parseFloat(process.env.PRICE_PER_REQUEST || '0.01'), as a fraction
PricePerRequest == [num |-> 1, den |-> 100]

PayToAddress == "0xMerchant"
FacilitatorUrl == "http://localhost:8080"

\* amount: null is a key whose value is falsy: it is left out of the object
DailyLedgerToken ==
  [contractType |-> "DailyLedger", address |-> "0xDailyLedger",
   chainId |-> DailyLedgerChainId, domainName |-> "DailyLedger",
   domainVersion |-> "1", explorerUrl |-> "http://220.154.132.194:3001",
   description |-> "Pay with DailyLedger (Private Chain)"]

UsdcToken ==
  [contractType |-> "USDC", address |-> "0xUSDC",
   chainId |-> UsdcChainId, domainName |-> "USD Coin",
   domainVersion |-> "2", explorerUrl |-> "https://sepolia.basescan.org",
   description |-> "Pay with USDC (Base Sepolia)"]

\* The token lists server.js can build: each token is pushed when its
\* address is in the environment, DailyLedger first.  The empty list makes
\* server.js exit and the constructor throw, so no engine serves with it.
TokenLists == {<<DailyLedgerToken>>, <<UsdcToken>>, <<DailyLedgerToken, UsdcToken>>}

\* new X402Middleware(config), v2
X402MiddlewareV2(supportedTokens) ==
  [version |-> 2,
   facilitatorUrl |-> FacilitatorUrl,
   payToAddress |-> PayToAddress,
   pricePerRequest |-> PricePerRequest,
   supportedTokens |-> supportedTokens,
   scheme |-> "exact"]

\* new X402Middleware(config), v1 (README.md)
X402MiddlewareV1 ==
  [version |-> 1,
   facilitatorUrl |-> FacilitatorUrl,
   network |-> "base-sepolia",
   payToAddress |-> PayToAddress,
   pricePerRequest |-> PricePerRequest,
   currency |-> "USDC",
   currencyAddress |-> "0xUSDC",
   scheme |-> "exact"]

Engines == {X402MiddlewareV2(t) : t \in TokenLists} \cup {X402MiddlewareV1}

(***************************************************************************)
(* Inbound requests.                                                       *)
(***************************************************************************)
Routes == {[path |-> "/api/protected", method |-> "GET"],
           [path |-> "/api/chat", method |-> "POST"]}

\* `${req.protocol}://${req.get('host')}${req.originalUrl || req.path}`
ResourceV2(req) == <<"http", "://", "localhost:3000", req.path>>

\* const resource = "http://localhost:3000/api/protected"
ResourceV1 == <<"http", "://", "localhost:3000", "/api/protected">>

(***************************************************************************)
(* Credentials a client can put in the PAYMENT-SIGNATURE / X-Payment       *)
(* header.  A header is absent, the empty string, a text that is not JSON, *)
(* or a JSON text (held as the value JSON.parse gives for it).             *)
(***************************************************************************)
Nonces == {"0xn1", "0xn2"}

Payer == "0xPayer"

\* the signature the payer's wallet gives for the authorization with nonce n
SignatureOf(n) == IF n = "0xn1" THEN "0xsig1" ELSE "0xsig2"

\* the route the payer chose when it used nonce n
NetworkOf(n) == IF n = "0xn1" THEN Caip2(DailyLedgerChainId) ELSE Caip2(UsdcChainId)

AuthorizationOf(n) ==
  [from |-> Payer, to |-> PayToAddress, value |-> NumToString(10000),
   validAfter |-> 0, validBefore |-> 3600, nonce |-> n]

\* what X402Client.createPaymentV2 returns (client.js)
CredentialV2(n) ==
  [x402Version |-> 2,
   paymentPayload |->
     [x402Version |-> 2, scheme |-> "exact", network |-> NetworkOf(n),
      payload |-> [authorization |-> AuthorizationOf(n),
                   signature |-> SignatureOf(n)]],
   memo |-> <<"memo">>,
   resource |-> <<"http", "://", "localhost:3000", "/api/protected">>]

WithPayload(c, p) == Put(c, "paymentPayload", Put(c.paymentPayload, "payload", p))
WithAuth(c, a) == WithPayload(c, Put(c.paymentPayload.payload, "authorization", a))

\* credentials that are JSON but not of the credential schema
BrokenV2 ==
  LET c == CredentialV2("0xn1")
      p == c.paymentPayload.payload
      a == p.authorization
  IN {JsonNull,
      Drop(c, "paymentPayload"),
      WithPayload(c, Drop(p, "signature")),
      WithAuth(c, Drop(a, "from")),
      WithAuth(c, Drop(a, "validAfter")),
      WithAuth(c, Drop(a, "validBefore"))}

JsonV2 == {CredentialV2(n) : n \in Nonces} \cup BrokenV2

\* what X402Client.createPayment returns (v1 client): payment is signatureData
CredentialV1(n) ==
  [x402Version |-> 1, scheme |-> "exact", network |-> "base-sepolia",
   payment |-> AuthorizationOf(n) @@
               [v |-> 27, r |-> <<"0", "x", "a", "a">>, s |-> <<"0", "x", "b", "b">>],
   resource |-> <<"/api/protected">>]

BrokenV1 ==
  LET c == CredentialV1("0xn1")
  IN {JsonNull,
      Drop(c, "payment"),
      Put(c, "payment", Drop(c.payment, "v")),
      Put(c, "payment", Drop(c.payment, "s")),
      Put(c, "payment", Drop(c.payment, "validAfter")),
      Put(c, "payment", Drop(c.payment, "validBefore"))}

JsonV1 == {CredentialV1(n) : n \in Nonces} \cup BrokenV1

AbsentHeader == [kind |-> "absent"]
EmptyHeader == [kind |-> "empty"]
TextHeader == [kind |-> "text"]
JsonHeader(v) == [kind |-> "json", value |-> v]

Headers(version) ==
  {AbsentHeader, EmptyHeader, TextHeader} \cup
  {JsonHeader(v) : v \in IF version = 2 THEN JsonV2 ELSE JsonV1}

\* mutant: only the empty value is taken for a missing credential
FalsyOnlyEmpty(header) == header.kind = "empty"

\* !header: undefined and '' are falsy
Falsy(header) == header.kind \in {"absent", "empty"}

\* mutant: a header that is not JSON is passed on instead of throwing
JsonParseLenient(header) ==
  IF header.kind = "json" THEN [threw |-> FALSE, value |-> header.value]
  ELSE [threw |-> FALSE, value |-> JsonNull]

\* JSON.parse(header): throws SyntaxError unless the text is JSON
JsonParse(header) ==
  IF header.kind = "json" THEN [threw |-> FALSE, value |-> header.value]
  ELSE [threw |-> TRUE]

(***************************************************************************)
(* Responses.                                                              *)
(***************************************************************************)
Response(status, headers, body) ==
  [status |-> status, headers |-> headers, body |-> body]

\* mutant: the header is written from the object itself ('[object Object]')
ObjectToString(v) == [text |-> "[object Object]"]

\* JSON.stringify and Buffer.toString('base64') as tagged encodings
JsonStringify(v) == [json |-> v]
Base64Encode(t) == [base64 |-> t]

\* mutant: the convenience object is taken from the last route
Last(list) == list[Len(list)]

\* accepts[0], this.supportedTokens[0]
First(list) == list[1]

\* Math.floor(this.pricePerRequest * 1000000).toString()
DefaultAmount(self) ==
  NumToString((self.pricePerRequest.num * 1000000) \div self.pricePerRequest.den)

\* mutant: every entry of accepts describes the first configured token
RouteOfFirstToken(self, token, memo) ==
  LET first == self.supportedTokens[1]
  IN [scheme |-> self.scheme,
      network |-> Caip2(first.chainId),
      asset |-> first.address,
      amount |-> DefaultAmount(self),
      payTo |-> self.payToAddress,
      description |-> first.description,
      timeoutSeconds |-> 120,
      meta |-> [domainName |-> first.domainName,
                domainVersion |-> first.domainVersion,
                contractType |-> first.contractType,
                explorerUrl |-> first.explorerUrl,
                memo |-> memo]]

\* one entry of accepts (v2 sendPaymentRequired, the map callback)
RouteOf(self, token, memo) ==
  [scheme |-> self.scheme,
   network |-> Caip2(token.chainId),
   asset |-> token.address,
   amount |-> IF Has(token, "amount") THEN token.amount ELSE DefaultAmount(self),
   payTo |-> self.payToAddress,
   description |-> token.description,
   timeoutSeconds |-> 120,
   meta |-> [domainName |-> token.domainName,
             domainVersion |-> token.domainVersion,
             contractType |-> token.contractType,
             explorerUrl |-> token.explorerUrl,
             memo |-> memo]]

\* sendPaymentRequired(req, res, resource), v2
SendPaymentRequiredV2(self, req, resource) ==
  LET resourceInfo == [resource |-> resource, mimeType |-> "application/json",
                       method |-> req.method]
      accepts == [i \in 1..Len(self.supportedTokens) |->
                    RouteOf(self, self.supportedTokens[i], resource)]
      supportedNetworks == [i \in 1..Len(accepts) |-> accepts[i].network]
      paymentRequired ==
        [version |-> 2, resourceInfo |-> resourceInfo, accepts |-> accepts,
         facilitators |-> <<[url |-> self.facilitatorUrl,
                             networks |-> supportedNetworks]>>]
      firstRoute == First(accepts)
      firstToken == First(self.supportedTokens)
      contractMetadata ==
        [domainName |-> firstRoute.meta.domainName,
         domainVersion |-> firstRoute.meta.domainVersion,
         chainId |-> firstToken.chainId,
         verifyingContract |-> firstRoute.asset,
         contractType |-> firstRoute.meta.contractType,
         explorerUrl |-> firstRoute.meta.explorerUrl,
         caip2Network |-> firstRoute.network]
  IN Response(402,
       [PaymentRequired |-> Base64Encode(JsonStringify(paymentRequired))],
       [error |-> "Payment Required",
        message |-> "This endpoint requires payment",
        v2 |-> [version |-> 2, resourceInfo |-> resourceInfo, accepts |-> accepts],
        contractMetadata |-> contractMetadata])

\* sendPaymentRequired(req, res), v1: the X-Accept-Payment attribute list
SendPaymentRequiredV1(self, req) ==
  LET amount == (self.pricePerRequest.num * 1000000) \div self.pricePerRequest.den
  IN Response(402,
       [XAcceptPayment |->
          <<"1 x402",
            [name |-> "facilitators", value |-> self.facilitatorUrl],
            [name |-> "schemes", value |-> self.scheme],
            [name |-> "networks", value |-> self.network],
            [name |-> "currencies", value |-> <<self.currency, ":", self.currencyAddress>>],
            [name |-> "amount", value |-> NumToString(amount)],
            [name |-> "resource", value |-> req.path],
            [name |-> "payTo", value |-> self.payToAddress]>>],
       [error |-> "Payment Required",
        message |-> "This endpoint requires payment",
        payment |-> [amount |-> self.pricePerRequest,
                     currency |-> self.currency,
                     network |-> self.network,
                     payTo |-> self.payToAddress,
                     facilitator |-> self.facilitatorUrl]])

\* res.status(400).json({error: 'Invalid payment ... format', message})
InvalidFormatResponse(self) ==
  Response(400, EmptyObj,
    [error |-> IF self.version = 2 THEN "Invalid payment signature format"
               ELSE "Invalid payment header format",
     message |-> "SyntaxError"])

\* res.status(402).json({error: 'Payment verification failed', ...})
VerificationFailedResponse ==
  Response(402, EmptyObj,
    [error |-> "Payment verification failed",
     message |-> "The payment signature is invalid or has been used"])

\* res.status(500).json({error: 'Payment verification error', message})
VerificationErrorResponse(message) ==
  Response(500, EmptyObj,
    [error |-> "Payment verification error", message |-> message])

\* the protected handlers of server.js: res.json({...}), status 200
HandlerResponse(req) ==
  Response(200, EmptyObj,
    [message |-> IF req.path = "/api/chat" THEN "Chat response"
                 ELSE "Success! You have access to this protected content."])

(***************************************************************************)
(* verifyPayment / settlePayment: the payload posted to the facilitator.   *)
(* A builder gives [threw |-> TRUE, message] when the code throws before   *)
(* axios.post, else [threw |-> FALSE, payload].  JSON.stringify leaves out *)
(* the keys whose value is undefined.                                      *)
(***************************************************************************)
Threw(message) == [threw |-> TRUE, message |-> message]
Built(payload) == [threw |-> FALSE, payload |-> payload]

\* keys copied from src when defined there
Defined(src, keys) == [k \in (keys \cap DOMAIN src) |-> src[k]]

\* payment.paymentPayload?.payload || {}
PaymentDataOf(payment) ==
  IF Has(payment, "paymentPayload")
  THEN ObjOrEmpty(payment.paymentPayload, "payload")
  ELSE EmptyObj

\* payment.memo || authData.memo || resource
MemoOf(payment, authData, resource) ==
  IF Has(payment, "memo") /\ payment.memo # <<>> THEN payment.memo
  ELSE IF Has(authData, "memo") /\ authData.memo # <<>> THEN authData.memo
  ELSE resource

\* payment.paymentPayload?.network?.includes(t.chainId.toString())
TokenMatches(payment, t) ==
  /\ Has(payment, "paymentPayload")
  /\ Has(payment.paymentPayload, "network")
  /\ Includes(payment.paymentPayload.network, NumToString(t.chainId))

\* this.supportedTokens.find(...) || this.supportedTokens[0]
UsedToken(self, payment) ==
  LET tokens == self.supportedTokens
      hits == {i \in 1..Len(tokens) : TokenMatches(payment, tokens[i])}
  IN IF hits = {} THEN tokens[1]
     ELSE tokens[CHOOSE i \in hits : \A j \in hits : i <= j]

\* mutant: the flag is set for every contract type
AlwaysAllowNegative(token) == TRUE

\* usedToken.contractType === 'DailyLedger' ? true : false
AllowNegativeBalance(token) == token.contractType = "DailyLedger"

\* mutant: the facilitator request repeats the credential's version
InboundVersion(payment) ==
  IF Has(payment, "x402Version") THEN payment.x402Version ELSE 1

\* x402Version: 1, the literal of the facilitator requests
FacilitatorVersion(payment) == 1

\* the object literal posted by the v2 verifyPayment and settlePayment
FacilitatorPayloadV2(self, payment, resource) ==
  LET paymentData == PaymentDataOf(payment)
      authData == ObjOrEmpty(paymentData, "authorization")
      memo == MemoOf(payment, authData, resource)
      usedToken == UsedToken(self, payment)
  IN [x402Version |-> FacilitatorVersion(payment),
      paymentPayload |->
        [x402Version |-> FacilitatorVersion(payment),
         scheme |-> self.scheme,
         network |-> "base-sepolia",
         payload |->
           Defined(paymentData, {"signature"}) @@
           [authorization |->
              Defined(authData, {"from", "value", "nonce"}) @@
              [to |-> self.payToAddress,
               validAfter |-> NumToString(authData.validAfter),
               validBefore |-> NumToString(authData.validBefore),
               memo |-> memo]]],
      paymentRequirements |->
        (IF Has(authData, "value") THEN [maxAmountRequired |-> authData.value]
         ELSE EmptyObj) @@
        [scheme |-> self.scheme,
         network |-> "base-sepolia",
         resource |-> resource,
         description |-> "payment",
         mimeType |-> "application/json",
         maxTimeoutSeconds |-> 60,
         payTo |-> self.payToAddress,
         asset |-> usedToken.address,
         extra |-> [name |-> usedToken.domainName,
                    version |-> usedToken.domainVersion,
                    contractType |-> usedToken.contractType,
                    allowNegativeBalance |-> AllowNegativeBalance(usedToken)]]]

\* authData.validAfter.toString() / validBefore.toString() on undefined
WindowUndefined(authData) ==
  ~Has(authData, "validAfter") \/ ~Has(authData, "validBefore")

\* !signature || !authData.from
MissingSignatureOrFrom(paymentData, authData) ==
  \/ ~Has(paymentData, "signature") \/ paymentData.signature = ""
  \/ ~Has(authData, "from") \/ authData.from = ""

\* mutant: a window that is already over is refused without a verify call
VerifyPayloadV2PreChecked(self, payment, resource) ==
  IF payment = JsonNull THEN Threw("TypeError")
  ELSE LET paymentData == PaymentDataOf(payment)
           authData == ObjOrEmpty(paymentData, "authorization")
       IN IF MissingSignatureOrFrom(paymentData, authData)
          THEN Threw("Invalid payment structure: missing signature or from address")
          ELSE IF WindowUndefined(authData) THEN Threw("TypeError")
          ELSE IF authData.validBefore <= authData.validAfter THEN Threw("expired")
          ELSE Built(FacilitatorPayloadV2(self, payment, resource))

\* verifyPayment(payment, resource), v2, up to the axios.post
VerifyPayloadV2(self, payment, resource) ==
  IF payment = JsonNull THEN Threw("TypeError")
  ELSE LET paymentData == PaymentDataOf(payment)
           authData == ObjOrEmpty(paymentData, "authorization")
       IN IF MissingSignatureOrFrom(paymentData, authData)
          THEN Threw("Invalid payment structure: missing signature or from address")
          ELSE IF WindowUndefined(authData) THEN Threw("TypeError")
          ELSE Built(FacilitatorPayloadV2(self, payment, resource))

\* mutant: the settle request names the resource the credential declares
SettleNamesCredentialResource(self, payment, resource) ==
  Built(FacilitatorPayloadV2(self, payment,
          IF Has(payment, "resource") THEN payment.resource ELSE resource))

\* settlePayment(payment, resource), v2, up to the axios.post
SettlePayloadV2(self, payment, resource) ==
  IF payment = JsonNull THEN Threw("TypeError")
  ELSE IF WindowUndefined(ObjOrEmpty(PaymentDataOf(payment), "authorization"))
  THEN Threw("TypeError")
  ELSE Built(FacilitatorPayloadV2(self, payment, resource))

HexChar == <<"0", "1", "2", "3", "4", "5", "6", "7",
             "8", "9", "a", "b", "c", "d", "e", "f">>

\* Number.prototype.toString(16)
RECURSIVE NumToHex(_)
NumToHex(n) == IF n < 16 THEN <<HexChar[n + 1]>>
               ELSE NumToHex(n \div 16) \o <<HexChar[(n % 16) + 1]>>

\* String.prototype.padStart(2, '0')
PadStart2(s) == IF Len(s) < 2 THEN <<"0">> \o s ELSE s

\* mutant: the 0x prefix of s is kept
SliceNothing(s) == s

\* String.prototype.slice(2)
Slice2(s) == SubSeq(s, 3, Len(s))

\* `${r}${s.slice(2)}${v.toString(16).padStart(2, '0')}`
PackSignature(sig) ==
  (IF Has(sig, "r") THEN sig.r ELSE <<"undefined">>)
  \o Slice2(sig.s) \o PadStart2(NumToHex(sig.v))

\* the object literal posted by the v1 verifyPayment and settlePayment
FacilitatorPayloadV1(self, payment, resource) ==
  LET p == payment.payment
      scheme == IF Has(payment, "scheme") THEN payment.scheme ELSE self.scheme
      network == IF Has(payment, "network") THEN payment.network ELSE self.network
  IN [x402Version |-> FacilitatorVersion(payment),
      paymentPayload |->
        [x402Version |-> FacilitatorVersion(payment),
         scheme |-> scheme,
         network |-> network,
         payload |->
           [signature |-> PackSignature(p),
            authorization |->
              Defined(p, {"from", "to", "value", "nonce"}) @@
              [validAfter |-> NumToString(p.validAfter),
               validBefore |-> NumToString(p.validBefore)]]],
      paymentRequirements |->
        (IF Has(p, "value") THEN [maxAmountRequired |-> p.value] ELSE EmptyObj) @@
        (IF Has(p, "to") THEN [payTo |-> p.to] ELSE EmptyObj) @@
        [scheme |-> scheme,
         network |-> network,
         resource |-> resource,
         description |-> "test",
         mimeType |-> "application/json",
         maxTimeoutSeconds |-> 60,
         asset |-> self.currencyAddress,
         extra |-> [name |-> "YZF Token", version |-> "1"]]]

\* the property reads of the v1 literal that throw TypeError on undefined
ThrowsV1(payment) ==
  \/ payment = JsonNull
  \/ ~Has(payment, "payment")
  \/ ~Has(payment.payment, "s") \/ ~Has(payment.payment, "v")
  \/ WindowUndefined(payment.payment)

\* verifyPayment(payment, resource), v1, up to the axios.post
VerifyPayloadV1(self, payment, resource) ==
  IF ThrowsV1(payment) THEN Threw("TypeError")
  ELSE Built(FacilitatorPayloadV1(self, payment, resource))

\* settlePayment(payment, resource), v1, up to the axios.post
SettlePayloadV1(self, payment, resource) ==
  IF ThrowsV1(payment) THEN Threw("TypeError")
  ELSE Built(FacilitatorPayloadV1(self, payment, resource))

(***************************************************************************)
(* The two engines behind one interface.                                   *)
(***************************************************************************)
ResourceOf(self, req) == IF self.version = 2 THEN ResourceV2(req) ELSE ResourceV1

\* mutant: a challenge that tells how many requests are being verified
SendPaymentRequiredCounting(self, req) ==
  LET challenge == IF self.version = 2
                   THEN SendPaymentRequiredV2(self, req, ResourceV2(req))
                   ELSE SendPaymentRequiredV1(self, req)
  IN IF \A q \in Req : pc[q] # "verifying" THEN challenge
     ELSE [challenge EXCEPT !.body =
             Put(@, "inFlight", Cardinality({q \in Req : pc[q] = "verifying"}))]

SendPaymentRequired(self, req) ==
  IF self.version = 2 THEN SendPaymentRequiredV2(self, req, ResourceV2(req))
  ELSE SendPaymentRequiredV1(self, req)

VerifyPayload(self, payment, resource) ==
  IF self.version = 2 THEN VerifyPayloadV2(self, payment, resource)
  ELSE VerifyPayloadV1(self, payment, resource)

SettlePayload(self, payment, resource) ==
  IF self.version = 2 THEN SettlePayloadV2(self, payment, resource)
  ELSE SettlePayloadV1(self, payment, resource)

(***************************************************************************)
(* The facilitator (the environment of the two axios.post calls).  It      *)
(* never reports an authorization valid whose (from, nonce) it has already *)
(* settled, and never settles one twice.                                   *)
(***************************************************************************)
Data(d) == [kind |-> "data", data |-> d]
Failure(m) == [kind |-> "failure", message |-> m]
NoReply == [kind |-> "none"]
Pending == [kind |-> "pending"]

AuthKey(payload) ==
  LET a == payload.paymentPayload.payload.authorization
  IN <<IF Has(a, "from") THEN a.from ELSE "", IF Has(a, "nonce") THEN a.nonce ELSE "">>

\* what POST /verify can give: a 2xx body, or an axios error (timeout of
\* 10000ms, no connection, a non-2xx status)
VerifyReplies(payload, settledSet) ==
  {Data([isValid |-> FALSE]), Failure("verify failed")} \cup
  (IF AuthKey(payload) \in settledSet THEN {}
   ELSE {Data([isValid |-> TRUE]), Data([valid |-> TRUE])})

\* what POST /settle can give: a 2xx body with the transaction hash, or an
\* axios error (timeout of 30000ms, no connection, a non-2xx status)
SettleReplies(payload, settledSet) ==
  {Failure("settle failed")} \cup
  (IF AuthKey(payload) \in settledSet THEN {}
   ELSE {Data([transactionHash |-> "0xtx"])})

\* the await of axios.post throws, or the read of response.data.isValid does
ReplyThrows(reply) ==
  IF reply.kind = "failure" THEN TRUE ELSE reply.data = JsonNull

ThrownMessage(reply) ==
  IF reply.kind = "failure" THEN reply.message ELSE "TypeError"

\* mutant: the reply is judged by the presence of the field, not by === true
IsValidIfPresent(data) == Has(data, "isValid") \/ Has(data, "valid")

\* mutant: only the isValid field is looked at
IsValidOnly(data) == Has(data, "isValid") /\ data.isValid = TRUE

\* response.data.isValid === true || response.data.valid === true
IsValid(data) ==
  \/ Has(data, "isValid") /\ data.isValid = TRUE
  \/ Has(data, "valid") /\ data.valid = TRUE

(***************************************************************************)
(* The middleware, one action per run of the async function between two    *)
(* suspension points.                                                      *)
(***************************************************************************)
\* server.js has run to app.listen
Listening == [phase |-> "listening"]

\* no requestProtectedResource call is in progress
ClientIdle == [phase |-> "idle"]

\* the requests' bookkeeping before any request has arrived
NoRequests ==
  /\ pc = [r \in Req |-> "idle"]
  /\ request = [r \in Req |-> EmptyObj]
  /\ payments = [r \in Req |-> NoPayment]
  /\ verifyCalls = [r \in Req |-> <<>>]
  /\ verifyResult = [r \in Req |-> NoReply]
  /\ settleCalls = [r \in Req |-> <<>>]
  /\ settleState = [r \in Req |-> "none"]
  /\ responses = [r \in Req |-> <<>>]
  /\ nextCalls = [r \in Req |-> 0]
  /\ x402Payment = [r \in Req |-> NoPayment]
  /\ settled = {}
  /\ errorLog = 0
  /\ unhandled = FALSE

\* an engine of `engines` is constructed and serving, nothing has arrived
InitWith(engines) ==
  /\ cfg \in engines
  /\ NoRequests
  /\ server = Listening
  /\ client = ClientIdle

Init == InitWith(Engines)

Send(r, response) == responses' = [responses EXCEPT ![r] = Append(@, response)]

\* the r-th request arrives with no usable credential header: 402 challenge
ReceiveNoCredential(r, req) ==
  /\ Falsy(req.header)
  /\ Send(r, SendPaymentRequired(cfg, req))
  /\ pc' = [pc EXCEPT ![r] = "done"]
  /\ UNCHANGED <<payments, verifyCalls, verifyResult>>

\* JSON.parse throws: 400
ReceiveUnparseable(r, req) ==
  /\ ~Falsy(req.header)
  /\ JsonParse(req.header).threw
  /\ Send(r, InvalidFormatResponse(cfg))
  /\ pc' = [pc EXCEPT ![r] = "done"]
  /\ UNCHANGED <<payments, verifyCalls, verifyResult>>

\* the credential parses; verifyPayment runs up to its await, or throws
ReceiveCredential(r, req) ==
  /\ ~Falsy(req.header)
  /\ ~JsonParse(req.header).threw
  /\ LET payment == JsonParse(req.header).value
         built == VerifyPayload(cfg, payment, ResourceOf(cfg, req))
     IN /\ payments' = [payments EXCEPT ![r] = payment]
        /\ IF built.threw
           THEN /\ Send(r, VerificationErrorResponse(built.message))
                /\ pc' = [pc EXCEPT ![r] = "done"]
                /\ UNCHANGED <<verifyCalls, verifyResult>>
           ELSE /\ verifyCalls' = [verifyCalls EXCEPT ![r] = Append(@, built.payload)]
                /\ verifyResult' = [verifyResult EXCEPT ![r] = Pending]
                /\ pc' = [pc EXCEPT ![r] = "verifying"]
                /\ UNCHANGED responses

\* the middleware is entered for the r-th request (requests are numbered in
\* the order they arrive)
ReceiveOf(r, routes, headers) ==
  /\ pc[r] = "idle"
  /\ IF r = 1 THEN TRUE ELSE pc[r - 1] # "idle"
  /\ \E route \in routes, header \in headers :
       LET req == [path |-> route.path, method |-> route.method, header |-> header]
       IN /\ request' = [request EXCEPT ![r] = req]
          /\ \/ ReceiveNoCredential(r, req)
             \/ ReceiveUnparseable(r, req)
             \/ ReceiveCredential(r, req)
  /\ UNCHANGED <<cfg, settleCalls, settleState, nextCalls, x402Payment,
                 settled, errorLog, unhandled>>

Receive(r) ==
  /\ ReceiveOf(r, Routes, Headers(cfg.version))
  /\ UNCHANGED <<server, client>>

\* mutant: settlePayment is started without a .catch
NoSettleObserver(log, unh) == [errorLog |-> log, unhandled |-> TRUE]

\* .catch(err => console.error('Settlement failed:', err)) on the promise
\* settlePayment returns
ObserveSettleRejection(log, unh) == [errorLog |-> log + 1, unhandled |-> unh]

\* mutant: a verify call that fails lets the request through (fail open)
VerifyFailsOpen(r, reply) ==
  /\ reply.kind = "failure"
  /\ nextCalls' = [nextCalls EXCEPT ![r] = @ + 1]
  /\ Send(r, HandlerResponse(request[r]))
  /\ UNCHANGED <<settleCalls, settleState, x402Payment, errorLog, unhandled>>

\* mutant: a verify call that fails is logged and nothing is written to res
VerifyFailsSilently(r, reply) ==
  /\ ReplyThrows(reply)
  /\ UNCHANGED <<responses, settleCalls, settleState, nextCalls, x402Payment,
                 errorLog, unhandled>>

\* axios.post /verify rejects, or response.data.isValid is read of a body
\* that is null (TypeError): verifyPayment rethrows, the middleware's catch
\* answers 500
VerifyFails(r, reply) ==
  /\ ReplyThrows(reply)
  /\ Send(r, VerificationErrorResponse(ThrownMessage(reply)))
  /\ UNCHANGED <<settleCalls, settleState, nextCalls, x402Payment, errorLog, unhandled>>

\* mutant: settlePayment is started before the result of verify is looked at
VerifyRejectsAfterSettling(r, reply) ==
  /\ reply.kind = "data"
  /\ ~IsValid(reply.data)
  /\ settleCalls' = [settleCalls EXCEPT ![r] =
       Append(@, SettlePayload(cfg, payments[r], ResourceOf(cfg, request[r])).payload)]
  /\ settleState' = [settleState EXCEPT ![r] = "pending"]
  /\ Send(r, VerificationFailedResponse)
  /\ UNCHANGED <<nextCalls, x402Payment, errorLog, unhandled>>

\* mutant: a rejected credential is answered with a fresh challenge
VerifyRejectsWithChallenge(r, reply) ==
  /\ reply.kind = "data"
  /\ ~IsValid(reply.data)
  /\ Send(r, SendPaymentRequired(cfg, request[r]))
  /\ UNCHANGED <<settleCalls, settleState, nextCalls, x402Payment, errorLog, unhandled>>

\* mutant: req.x402Payment is set before the result of verify is looked at
VerifyRejectsAttaching(r, reply) ==
  /\ reply.kind = "data"
  /\ ~IsValid(reply.data)
  /\ x402Payment' = [x402Payment EXCEPT ![r] = payments[r]]
  /\ Send(r, VerificationFailedResponse)
  /\ UNCHANGED <<settleCalls, settleState, nextCalls, errorLog, unhandled>>

\* verifyPayment returns false: 402 rejection
VerifyRejects(r, reply) ==
  /\ ~ReplyThrows(reply)
  /\ ~IsValid(reply.data)
  /\ Send(r, VerificationFailedResponse)
  /\ UNCHANGED <<settleCalls, settleState, nextCalls, x402Payment, errorLog, unhandled>>

\* verifyPayment returns true: settlePayment is started and not awaited,
\* req.x402Payment is set, next() runs the handler
VerifyAdmits(r, reply) ==
  /\ ~ReplyThrows(reply)
  /\ IsValid(reply.data)
  /\ LET built == SettlePayload(cfg, payments[r], ResourceOf(cfg, request[r]))
     IN IF built.threw
        THEN LET o == ObserveSettleRejection(errorLog, unhandled)
             IN /\ settleState' = [settleState EXCEPT ![r] = "failed"]
                /\ errorLog' = o.errorLog
                /\ unhandled' = o.unhandled
                /\ UNCHANGED settleCalls
        ELSE /\ settleCalls' = [settleCalls EXCEPT ![r] = Append(@, built.payload)]
             /\ settleState' = [settleState EXCEPT ![r] = "pending"]
             /\ UNCHANGED <<errorLog, unhandled>>
  /\ x402Payment' = [x402Payment EXCEPT ![r] = payments[r]]
  /\ nextCalls' = [nextCalls EXCEPT ![r] = @ + 1]
  /\ Send(r, HandlerResponse(request[r]))

\* the await of axios.post /verify ends with one of `replies` and the
\* middleware runs to its end
VerifyReturnsWith(r, replies) ==
  /\ pc[r] = "verifying"
  /\ \E reply \in replies :
       /\ verifyResult' = [verifyResult EXCEPT ![r] = reply]
       /\ \/ VerifyFails(r, reply)
          \/ VerifyRejects(r, reply)
          \/ VerifyAdmits(r, reply)
  /\ pc' = [pc EXCEPT ![r] = "done"]
  /\ UNCHANGED <<cfg, request, payments, verifyCalls, settled>>

VerifyReturns(r) ==
  /\ VerifyReturnsWith(r, VerifyReplies(verifyCalls[r][Len(verifyCalls[r])], settled))
  /\ UNCHANGED <<server, client>>

\* axios.post /settle resolves: settlePayment logs the hash and returns
SettleSucceeds(r, reply) ==
  /\ reply.kind = "data"
  /\ settleState' = [settleState EXCEPT ![r] = "ok"]
  /\ settled' = settled \cup {AuthKey(settleCalls[r][Len(settleCalls[r])])}
  /\ UNCHANGED <<errorLog, unhandled>>

\* axios.post /settle rejects: settlePayment rethrows, the .catch observes it
SettleFails(r, reply) ==
  /\ reply.kind = "failure"
  /\ LET o == ObserveSettleRejection(errorLog, unhandled)
     IN /\ errorLog' = o.errorLog
        /\ unhandled' = o.unhandled
  /\ settleState' = [settleState EXCEPT ![r] = "failed"]
  /\ UNCHANGED settled

\* the detached settlePayment promise settles
SettleReturns(r) ==
  /\ settleState[r] = "pending"
  /\ \E reply \in SettleReplies(settleCalls[r][Len(settleCalls[r])], settled) :
       \/ SettleSucceeds(r, reply)
       \/ SettleFails(r, reply)
  /\ UNCHANGED <<cfg, pc, request, payments, verifyCalls, verifyResult, settleCalls,
                 responses, nextCalls, x402Payment, server, client>>

Next == \E r \in Req : Receive(r) \/ VerifyReturns(r) \/ SettleReturns(r)

Spec == Init /\ [][Next]_vars

(***************************************************************************)
(* Vocabulary of the properties.                                           *)
(***************************************************************************)
Arrived(r) == pc[r] # "idle"

\* the facilitator's reply says, in its own words, that the payment is valid
ReplySaysValid(reply) ==
  /\ reply.kind = "data"
  /\ \/ Has(reply.data, "isValid") /\ reply.data.isValid
     \/ Has(reply.data, "valid") /\ reply.data.valid

\* the request got exactly one response, with this status
AnsweredWith(r, status) ==
  /\ Len(responses[r]) = 1
  /\ responses[r][1].status = status

NoFacilitatorCall(r) == verifyCalls[r] = <<>> /\ settleCalls[r] = <<>>

NotAdmitted(r) == nextCalls[r] = 0 /\ x402Payment[r] = NoPayment

\* a response that carries a challenge: the header or the route list
IsChallenge(response) ==
  \/ Has(response.headers, "PaymentRequired")
  \/ Has(response.headers, "XAcceptPayment")
  \/ Has(response.body, "v2")
  \/ Has(response.body, "contractMetadata")
  \/ Has(response.body, "payment")

\* C1: a request without a credential header is answered 402 and causes no
\* verify call and no settle call.
C1_NoCredentialIsChallenged ==
  \A r \in Req :
    (Arrived(r) /\ request[r].header = AbsentHeader) =>
      /\ AnsweredWith(r, 402)
      /\ IsChallenge(responses[r][1])
      /\ NoFacilitatorCall(r)
      /\ NotAdmitted(r)

C1_Witness ==
  \E r, q \in Req :
    /\ Arrived(r) /\ request[r].header = AbsentHeader /\ AnsweredWith(r, 402)
    /\ Len(verifyCalls[q]) = 1

\* C2: next() has been called for a request only if the verify call made for
\* that request returned a reply that says valid; never while the call is
\* pending, failed or rejected.
C2_AdmittedOnlyIfVerified ==
  \A r \in Req :
    nextCalls[r] > 0 =>
      /\ Len(verifyCalls[r]) = 1
      /\ ReplySaysValid(verifyResult[r])
      /\ pc[r] = "done"

C2_Witness ==
  \E r, q \in Req :
    /\ nextCalls[r] = 1 /\ ReplySaysValid(verifyResult[r])
    /\ verifyResult[q] = Data([isValid |-> FALSE]) /\ nextCalls[q] = 0

\* C3: when the verify call fails at the transport level (timeout, no
\* connection, error status) the request is answered 500, the handler is not
\* invoked and no settle call is dispatched.
C3_VerifyFailureFailsClosed ==
  \A r \in Req :
    verifyResult[r].kind = "failure" =>
      /\ AnsweredWith(r, 500)
      /\ NotAdmitted(r)
      /\ settleCalls[r] = <<>>
      /\ settleState[r] = "none"

C3_Witness ==
  \E r \in Req : verifyResult[r].kind = "failure" /\ AnsweredWith(r, 500)

\* C4: a settle call is made only in the step in which the verify call of the
\* same request returns valid: every settle call is preceded by that request's
\* own verify call and its valid reply, and none exists otherwise.
C4_SettleOnlyAfterValidVerify ==
  /\ [][\A r \in Req :
          settleCalls[r]' # settleCalls[r] =>
            /\ Len(verifyCalls[r]) = 1
            /\ verifyResult[r] = Pending
            /\ ReplySaysValid(verifyResult[r]')
            /\ Len(settleCalls[r]') = 1]_vars
  /\ [](\A r \in Req :
          settleCalls[r] # <<>> => ReplySaysValid(verifyResult[r]))

C4_Witness ==
  \E r, q \in Req :
    /\ Len(settleCalls[r]) = 1
    /\ pc[q] = "done" /\ Len(verifyCalls[q]) = 1 /\ settleCalls[q] = <<>>

\* C5: the response of an admitted request is the handler's, whatever becomes
\* of its settle call (pending, succeeded, failed); a settle failure is
\* observed by the .catch (logged, never an unhandled rejection).
C5_SettleOutcomeNeverSurfaces ==
  /\ \A r \in Req :
       nextCalls[r] > 0 =>
         /\ AnsweredWith(r, 200)
         /\ settleState[r] \in {"pending", "ok", "failed"}
  /\ \A r \in Req :
       settleState[r] # "none" => nextCalls[r] = 1 /\ AnsweredWith(r, 200)
  /\ ~unhandled
  /\ errorLog = Cardinality({r \in Req : settleState[r] = "failed"})

C5_Witness ==
  \E r, q \in Req :
    /\ r < q
    /\ settleState[r] = "failed" /\ AnsweredWith(r, 200) /\ errorLog >= 1
    /\ nextCalls[q] = 1 /\ AnsweredWith(q, 200)

\* the settle calls made so far that carry the credential (payer, nonce),
\* as (request, index) pairs
SettleCallsWith(key) ==
  {c \in UNION {{<<r, i>> : i \in 1..Len(settleCalls[r])} : r \in Req} :
     AuthKey(settleCalls[c[1]][c[2]]) = key}

Credentials == {<<Payer, n>> : n \in Nonces}

\* the credential a request submitted and had verified
VerifiedKey(r) == AuthKey(verifyCalls[r][1])

\* C6: over any interleaving of requests, at most one settle call carries a
\* given credential (same payer, nonce and signature).
C6_SettleOncePerCredential ==
  \A key \in Credentials : Cardinality(SettleCallsWith(key)) <= 1

\* C7: of two requests that carry the same nonce of the same payer, at most
\* one reaches the protected handler (the facilitator rejects an authorization
\* whose nonce it has settled).
C7_ReplayedNonceRejected ==
  \A r, q \in Req :
    (r # q /\ verifyCalls[r] # <<>> /\ verifyCalls[q] # <<>>
       /\ VerifiedKey(r) = VerifiedKey(q)) =>
      ~(nextCalls[r] > 0 /\ nextCalls[q] > 0)

\* C8: when verify returns a not-valid result the request ends with 402 and
\* the rejection body: no challenge header, no route list, a body other than
\* the challenge's, and the handler is not invoked.
C8_RejectionIsNotAChallenge ==
  \A r \in Req :
    (verifyResult[r].kind = "data" /\ ~ReplySaysValid(verifyResult[r])) =>
      /\ AnsweredWith(r, 402)
      /\ ~IsChallenge(responses[r][1])
      /\ responses[r][1].body.error = "Payment verification failed"
      /\ responses[r][1].body # SendPaymentRequired(cfg, request[r]).body
      /\ NotAdmitted(r)
      /\ settleCalls[r] = <<>>

C8_Witness ==
  \E r \in Req :
    /\ verifyResult[r] = Data([isValid |-> FALSE])
    /\ AnsweredWith(r, 402)

\* C9 as claimed: a request whose credential header is present but does not
\* parse as JSON is answered 400, not 402, with no facilitator call and no
\* admission.
C9_UnparseableIs400 ==
  \A r \in Req :
    (Arrived(r) /\ request[r].header \in {EmptyHeader, TextHeader}) =>
      /\ AnsweredWith(r, 400)
      /\ NoFacilitatorCall(r)
      /\ NotAdmitted(r)

\* C9 as amended: a request whose credential header has a non-empty value
\* that does not parse as JSON is answered 400, with no facilitator call and
\* no admission; a header with the empty value is answered like an absent
\* one, by the 402 challenge.
C9_NonEmptyUnparseableIs400 ==
  \A r \in Req :
    /\ (Arrived(r) /\ request[r].header = TextHeader) =>
         /\ AnsweredWith(r, 400)
         /\ ~IsChallenge(responses[r][1])
         /\ NoFacilitatorCall(r)
         /\ NotAdmitted(r)
    /\ (Arrived(r) /\ request[r].header = EmptyHeader) =>
         /\ AnsweredWith(r, 402)
         /\ IsChallenge(responses[r][1])
         /\ NoFacilitatorCall(r)
         /\ NotAdmitted(r)

C9_Witness ==
  \E r, q \in Req :
    /\ Arrived(r) /\ request[r].header = TextHeader /\ AnsweredWith(r, 400)
    /\ Arrived(q) /\ request[q].header = EmptyHeader /\ AnsweredWith(q, 402)

\* the credential schema: paymentPayload with signature, authorization.from,
\* validAfter and validBefore (v2); payment with the signature components and
\* the validity window (v1)
SchemaValid(version, v) ==
  IF version = 2
  THEN /\ Has(v, "paymentPayload")
       /\ Has(v.paymentPayload, "payload")
       /\ Has(v.paymentPayload.payload, "signature")
       /\ Has(v.paymentPayload.payload, "authorization")
       /\ {"from", "validAfter", "validBefore"} \subseteq
            DOMAIN v.paymentPayload.payload.authorization
  ELSE /\ Has(v, "payment")
       /\ {"r", "s", "v", "from", "validAfter", "validBefore"} \subseteq
            DOMAIN v.payment

\* C10: a request whose credential parses as JSON but is not of the
\* credential schema is answered 400, not 402 and not 500, and no verify call
\* is made.
C10_SchemaInvalidIs400 ==
  \A r \in Req :
    (Arrived(r) /\ request[r].header.kind = "json"
       /\ ~SchemaValid(cfg.version, request[r].header.value)) =>
      /\ AnsweredWith(r, 400)
      /\ verifyCalls[r] = <<>>

(***************************************************************************)
(* Route resolution: chain ids and protocol versions the environment and   *)
(* the clients can choose.                                                 *)
(***************************************************************************)
\* the credential of a request, once parsed, and its network identifier
HasNetwork(r) ==
  /\ Arrived(r)
  /\ cfg.version = 2
  /\ request[r].header.kind = "json"
  /\ Has(request[r].header.value, "paymentPayload")
  /\ Has(request[r].header.value.paymentPayload, "network")

CredentialNetwork(r) == request[r].header.value.paymentPayload.network

\* the configured routes whose network identifier eip155:<chainId> is `network`
RoutesFor(self, network) ==
  {i \in 1..Len(self.supportedTokens) :
     Caip2(self.supportedTokens[i].chainId) = network}

\* the facilitator requests built for a request so far
FacilitatorCalls(r) ==
  {verifyCalls[r][i] : i \in 1..Len(verifyCalls[r])} \cup
  {settleCalls[r][i] : i \in 1..Len(settleCalls[r])}

\* the payload names the asset and the domain parameters of this token
BuiltFor(payload, token) ==
  /\ payload.paymentRequirements.asset = token.address
  /\ payload.paymentRequirements.extra.name = token.domainName
  /\ payload.paymentRequirements.extra.version = token.domainVersion
  /\ payload.paymentRequirements.extra.contractType = token.contractType

\* C12: a v2 credential whose network identifier is that of no configured
\* route is refused: no verify or settle request is built for it from some
\* other route, and the request is not admitted.
C12_UnknownNetworkIsRefused ==
  \A r \in Req :
    (HasNetwork(r) /\ RoutesFor(cfg, CredentialNetwork(r)) = {}) =>
      /\ NoFacilitatorCall(r)
      /\ NotAdmitted(r)

\* parseInt(process.env.DAILYLEDGER_CHAIN_ID || '1337') and
\* parseInt(process.env.USDC_CHAIN_ID || '84532') with the variable set
TokenOn(token, chainId) == Put(token, "chainId", chainId)

\* chain ids of which one is, as decimal digits, a part of another
SubstringChainIds == {1, 1337, 13370}

\* server.js with both addresses set and the two chain ids chosen: the
\* DailyLedger route is pushed first, so both orders of the chain ids occur
SubstringTokenLists ==
  {<<TokenOn(DailyLedgerToken, ids[1]), TokenOn(UsdcToken, ids[2])>> :
     ids \in {p \in SubstringChainIds \X SubstringChainIds : p[1] # p[2]}}

SubstringEngines == {X402MiddlewareV2(t) : t \in SubstringTokenLists}

\* the protocol version a client can write into its credential
CredentialVersions == {2, 3}

\* createPaymentV2 for the route on `chainId`, by a client that declares
\* protocol version `version`
CredentialOn(n, version, chainId) ==
  LET c == CredentialV2(n)
  IN Put(Put(c, "x402Version", version), "paymentPayload",
         Put(Put(c.paymentPayload, "x402Version", version),
             "network", Caip2(chainId)))

SubstringHeaders ==
  {AbsentHeader} \cup
  {JsonHeader(CredentialOn("0xn1", v, c)) :
     v \in CredentialVersions, c \in SubstringChainIds}

ReceiveOnChains(r) ==
  /\ ReceiveOf(r, Routes, SubstringHeaders)
  /\ UNCHANGED <<server, client>>

InitChains == InitWith(SubstringEngines)

NextChains ==
  \E r \in Req : ReceiveOnChains(r) \/ VerifyReturns(r) \/ SettleReturns(r)

SpecChains == InitChains /\ [][NextChains]_vars

\* C11: a request whose credential declares a protocol version that is
\* neither 1 nor 2 is answered 400; no verify call is made for it and it is
\* not admitted.
C11_UnsupportedVersionIs400 ==
  \A r \in Req :
    (Arrived(r) /\ request[r].header.kind = "json"
       /\ Has(request[r].header.value, "x402Version")
       /\ request[r].header.value.x402Version \notin {1, 2}) =>
      /\ AnsweredWith(r, 400)
      /\ verifyCalls[r] = <<>>
      /\ NotAdmitted(r)

\* C13: every verify and settle request built for a v2 credential whose
\* network is that of a configured route names the asset and the domain
\* parameters of a route with exactly that network identifier, also when one
\* configured chain id is a digit-substring of another, in either order.
C13_ResolvedRouteHasCredentialNetwork ==
  \A r \in Req :
    (HasNetwork(r) /\ RoutesFor(cfg, CredentialNetwork(r)) # {}) =>
      \A payload \in FacilitatorCalls(r) :
        \E i \in RoutesFor(cfg, CredentialNetwork(r)) :
          BuiltFor(payload, cfg.supportedTokens[i])

(***************************************************************************)
(* Start-up: the programs that construct the engine.  server.js builds the *)
(* token list from the environment and serves; check-config.js constructs  *)
(* the middleware from a configuration without a token list and prints.    *)
(***************************************************************************)
\* no X402Middleware has been constructed
NoEngine == [version |-> 0]

\* which of DAILYLEDGER_ADDRESS, USDC_ADDRESS, PAY_TO_ADDRESS are set
Environments == [dailyLedger : BOOLEAN, usdc : BOOLEAN, payTo : BOOLEAN]

Programs == {"server.js", "check-config.js"}

Starting(program, env) == [phase |-> "starting", program |-> program, env |-> env]

\* the process after its synchronous top-level code: listening, exited by
\* process.exit, or crashed by an uncaught exception
Ended(srv, phase) == [srv EXCEPT !.phase = phase]

\* const supportedTokens = []; ... push ... (server.js)
SupportedTokens(env) ==
  (IF env.dailyLedger THEN <<DailyLedgerToken>> ELSE <<>>) \o
  (IF env.usdc THEN <<UsdcToken>> ELSE <<>>)

\* the config object each program passes to new X402Middleware
ConfigOf(program, env) ==
  (IF env.payTo THEN [payToAddress |-> PayToAddress] ELSE EmptyObj) @@
  (IF program = "server.js"
   THEN [facilitatorUrl |-> FacilitatorUrl, pricePerRequest |-> PricePerRequest,
         supportedTokens |-> SupportedTokens(env)]
   ELSE [facilitatorUrl |-> FacilitatorUrl, pricePerRequest |-> PricePerRequest,
         network |-> "base-sepolia", currency |-> "USDC", scheme |-> "exact"])

\* config.supportedTokens || []
TokensOf(config) ==
  IF Has(config, "supportedTokens") THEN config.supportedTokens ELSE <<>>

\* this.payToAddress = config.payToAddress: undefined when the config has none
X402MiddlewareOf(config) ==
  IF Has(config, "payToAddress")
  THEN [X402MiddlewareV2(TokensOf(config)) EXCEPT !.payToAddress = config.payToAddress]
  ELSE Drop(X402MiddlewareV2(TokensOf(config)), "payToAddress")

\* mutant: a constructor that accepts an empty token list
ConstructorUnchecked(config) == Built(X402MiddlewareOf(config))

\* constructor(config): throws when no token is configured
Constructor(config) ==
  IF Len(TokensOf(config)) = 0
  THEN Threw("No tokens configured in X402Middleware")
  ELSE Built(X402MiddlewareOf(config))

\* mutant: a start-up that checks the token list only
MissingTokensOnly(env, config) == Len(SupportedTokens(env)) = 0

\* supportedTokens.length === 0, then !x402Config.payToAddress: either ends
\* the process with process.exit(1)
MissingConfiguration(env, config) ==
  Len(SupportedTokens(env)) = 0 \/ ~Has(config, "payToAddress")

\* server.js, from its first line to app.listen
StartServer ==
  LET config == ConfigOf("server.js", server.env)
  IN IF MissingConfiguration(server.env, config)
     THEN /\ server' = Ended(server, "exited")
          /\ UNCHANGED cfg
     ELSE LET x402 == Constructor(config)
          IN IF x402.threw
             THEN /\ server' = Ended(server, "crashed")
                  /\ UNCHANGED cfg
             ELSE /\ server' = Ended(server, "listening")
                  /\ cfg' = x402.payload

\* check-config.js: constructs the middleware and prints its fields
StartCheckConfig ==
  LET middleware == Constructor(ConfigOf("check-config.js", server.env))
  IN IF middleware.threw
     THEN /\ server' = Ended(server, "crashed")
          /\ UNCHANGED cfg
     ELSE /\ server' = Ended(server, "exited")
          /\ cfg' = middleware.payload

Startup ==
  /\ server.phase = "starting"
  /\ IF server.program = "server.js" THEN StartServer ELSE StartCheckConfig
  /\ UNCHANGED <<pc, request, payments, verifyCalls, verifyResult, settleCalls,
                 settleState, responses, nextCalls, x402Payment, settled,
                 errorLog, unhandled, client>>

\* requests reach the middleware only while the process listens
ReceiveListening(r) ==
  /\ server.phase = "listening"
  /\ ReceiveOf(r, Routes, {AbsentHeader} \cup {JsonHeader(CredentialV2(n)) : n \in Nonces})
  /\ UNCHANGED <<server, client>>

InitBoot ==
  /\ cfg = NoEngine
  /\ NoRequests
  /\ server \in {Starting(p, e) : p \in Programs, e \in Environments}
  /\ client = ClientIdle

NextBoot ==
  \/ Startup
  \/ \E r \in Req : ReceiveListening(r) \/ VerifyReturns(r) \/ SettleReturns(r)

SpecBoot == InitBoot /\ [][NextBoot]_vars

\* C14: constructing the engine with no route fails (the constructing program
\* dies with the error and no engine exists), and every request that has
\* arrived is served by an engine with at least one route.
C14_NoEngineWithoutRoutes ==
  /\ (server.phase # "starting"
        /\ Len(TokensOf(ConfigOf(server.program, server.env))) = 0) =>
       /\ server.phase \in {"exited", "crashed"}
       /\ cfg = NoEngine
  /\ (server.program = "check-config.js" /\ server.phase # "starting") =>
       server.phase = "crashed"
  /\ \A r \in Req :
       Arrived(r) =>
         /\ server.phase = "listening"
         /\ cfg # NoEngine
         /\ Len(cfg.supportedTokens) >= 1

C14_Witness ==
  /\ server.program = "check-config.js"
  /\ server.phase = "crashed"
  /\ cfg = NoEngine

(***************************************************************************)
(* The v2 challenge, and the v2 client that reads it (client/client.js).   *)
(***************************************************************************)
\* Buffer.from(header, 'base64').toString('utf-8'): the text a base64 string
\* stands for; of any other string, bytes that are no JSON text
Base64Decode(b) == IF Has(b, "base64") THEN b.base64 ELSE [text |-> "garbage"]

\* JSON.parse(decoded) in the client
JsonParseText(t) == IF Has(t, "json") THEN Built(t.json) ELSE Threw("SyntaxError")

\* v2Data.version !== 2 || !v2Data.accepts || v2Data.accepts.length === 0
InvalidRequirement(v2Data) ==
  \/ ~Has(v2Data, "version")
  \/ v2Data.version # 2
  \/ ~Has(v2Data, "accepts")
  \/ Len(v2Data.accepts) = 0

\* parsePaymentRequirement(response), v2
ParsePaymentRequirement(response) ==
  IF ~Has(response.headers, "PaymentRequired")
  THEN Threw("No PAYMENT-REQUIRED header found in 402 response")
  ELSE LET parsed == JsonParseText(Base64Decode(response.headers.PaymentRequired))
       IN IF parsed.threw THEN parsed
          ELSE IF InvalidRequirement(parsed.payload)
          THEN Threw("Invalid v2 payment requirement format")
          ELSE Built(Defined(parsed.payload, {"resourceInfo", "accepts", "facilitators"})
                     @@ Defined(response.body, {"contractMetadata"}))

\* the v2 challenges issued so far, each with the request it answers
Challenges ==
  {c \in UNION {{<<r, i>> : i \in 1..Len(responses[r])} : r \in Req} :
     /\ cfg.version = 2
     /\ Has(responses[c[1]][c[2]].headers, "PaymentRequired")}

ChallengeOf(c) == responses[c[1]][c[2]]

\* what a client reads from the challenge's header
HeaderOf(c) == ParsePaymentRequirement(ChallengeOf(c))

\* the i-th entry of accepts describes this token
RouteDescribes(route, token) ==
  /\ route.asset = token.address
  /\ route.network = Caip2(token.chainId)
  /\ route.meta.domainName = token.domainName
  /\ route.meta.domainVersion = token.domainVersion
  /\ route.meta.contractType = token.contractType
  /\ route.meta.explorerUrl = token.explorerUrl

\* C15: every challenge of an engine with N routes lists exactly N routes in
\* accepts, the i-th describing the i-th configured route, and the
\* facilitator descriptor lists the networks of accepts in the same order.
C15_AcceptsMirrorsRoutes ==
  \A c \in Challenges :
    /\ ~HeaderOf(c).threw
    /\ LET accepts == HeaderOf(c).payload.accepts
           facilitators == HeaderOf(c).payload.facilitators
       IN /\ Len(cfg.supportedTokens) >= 1
          /\ Len(accepts) = Len(cfg.supportedTokens)
          /\ \A i \in 1..Len(accepts) :
               RouteDescribes(accepts[i], cfg.supportedTokens[i])
          /\ Len(facilitators) = 1
          /\ facilitators[1].url = cfg.facilitatorUrl
          /\ facilitators[1].networks = [i \in 1..Len(accepts) |-> accepts[i].network]

C15_Witness ==
  \E c \in Challenges :
    /\ Len(cfg.supportedTokens) = 2
    /\ ~HeaderOf(c).threw
    /\ Len(HeaderOf(c).payload.accepts) = 2
    /\ HeaderOf(c).payload.accepts[1].network # HeaderOf(c).payload.accepts[2].network

C17_BodyMirrorsFirstRoute ==
  \A c \in Challenges :
    LET body == ChallengeOf(c).body
    IN /\ ~HeaderOf(c).threw
       /\ body.v2.accepts = HeaderOf(c).payload.accepts
       /\ LET route == HeaderOf(c).payload.accepts[1]
          IN /\ body.contractMetadata =
                  [domainName |-> route.meta.domainName,
                   domainVersion |-> route.meta.domainVersion,
                   contractType |-> route.meta.contractType,
                   explorerUrl |-> route.meta.explorerUrl,
                   verifyingContract |-> route.asset,
                   caip2Network |-> route.network,
                   chainId |-> body.contractMetadata.chainId]
             /\ Caip2(body.contractMetadata.chainId) = route.network

C17_Witness ==
  \E c \in Challenges :
    /\ Len(ChallengeOf(c).body.v2.accepts) = 2
    /\ ChallengeOf(c).body.contractMetadata.contractType = "DailyLedger"

\* C19: every verify and settle request carries x402Version 1 at the top
\* level and inside paymentPayload, whatever version the credential declares.
C19_FacilitatorRequestsAreV1 ==
  \A r \in Req :
    \A payload \in FacilitatorCalls(r) :
      /\ payload.x402Version = 1
      /\ payload.paymentPayload.x402Version = 1

C19_Witness ==
  \E r \in Req :
    /\ payments[r] # NoPayment
    /\ Has(payments[r], "x402Version") /\ payments[r].x402Version = 2
    /\ Len(verifyCalls[r]) = 1 /\ Len(settleCalls[r]) = 1

\* C20: in every verify and settle request of the v2 engine the extra block
\* is that of the resolved route: its name, version and contract type, and
\* allowNegativeBalance true exactly for DailyLedger, false for USDC.
C20_ExtraFollowsContractType ==
  \A r \in Req :
    cfg.version = 2 =>
      \A payload \in FacilitatorCalls(r) :
        LET route == UsedToken(cfg, payments[r])
            extra == payload.paymentRequirements.extra
        IN /\ BuiltFor(payload, route)
           /\ route.contractType \in {"DailyLedger", "USDC"}
           /\ extra.allowNegativeBalance = (extra.contractType = "DailyLedger")
           /\ extra.contractType = "USDC" => extra.allowNegativeBalance = FALSE

C20_Witness ==
  \E r, q \in Req :
    /\ cfg.version = 2
    /\ Len(settleCalls[r]) = 1 /\ Len(verifyCalls[q]) = 1
    /\ settleCalls[r][1].paymentRequirements.extra.allowNegativeBalance = TRUE
    /\ verifyCalls[q][1].paymentRequirements.extra.allowNegativeBalance = FALSE

(***************************************************************************)
(* X402Client.requestProtectedResource (v2): the first request goes out    *)
(* without a credential, the 402 is read, a credential is signed and the   *)
(* request is sent again with it.  Request 1 is the client's first         *)
(* request, request 2 the paid one.                                        *)
(***************************************************************************)
\* the 402 as the client receives it: with the body this engine wrote, or,
\* from a server that relies on the header, without contractMetadata or
\* without a body (axios then gives response.data = '')
BodiesSeen(response) ==
  {response.body, Drop(response.body, "contractMetadata"), EmptyObj}

\* createPaymentV2(route, resourceInfo), with Date.now() taken as 0 and the
\* nonce generateNonce() gives as n
CreatePaymentV2(route, resourceInfo, n) ==
  LET memo == IF Has(route, "meta") /\ Has(route.meta, "memo") /\ route.meta.memo # <<>>
              THEN route.meta.memo
              ELSE resourceInfo.resource
      signatureData ==
        [from |-> Payer, to |-> route.payTo, value |-> route.amount,
         validAfter |-> 0,
         validBefore |-> IF Has(route, "timeoutSeconds") THEN route.timeoutSeconds
                         ELSE 3600,
         nonce |-> n]
  IN [x402Version |-> 2,
      paymentPayload |->
        [x402Version |-> 2, scheme |-> route.scheme, network |-> route.network,
         payload |-> [authorization |-> signatureData,
                      signature |-> SignatureOf(n)]],
      memo |-> memo,
      resource |-> resourceInfo.resource]

\* createPayment(paymentInfo), v2
CreatePayment(paymentInfo, n) ==
  IF ~Has(paymentInfo, "contractMetadata")
  THEN Threw("Contract metadata not provided by server")
  ELSE Built(CreatePaymentV2(paymentInfo.accepts[1], paymentInfo.resourceInfo, n))

\* step 1: makeRequest(endpoint, method, data) without payment
ClientRequests ==
  /\ client.phase = "idle"
  /\ ReceiveOf(1, Routes, {AbsentHeader})
  /\ client' = [phase |-> "waiting"]
  /\ UNCHANGED server

\* steps 2 and 3: the first response is back; on 402 the requirement is
\* parsed and the credential created, and an error thrown there rejects
\* requestProtectedResource
ClientReads ==
  /\ client.phase = "waiting"
  /\ pc[1] = "done"
  /\ \E body \in BodiesSeen(responses[1][1]), n \in Nonces :
       LET response == Response(responses[1][1].status, responses[1][1].headers, body)
           paymentInfo == ParsePaymentRequirement(response)
           payment == IF paymentInfo.threw THEN paymentInfo
                      ELSE CreatePayment(paymentInfo.payload, n)
       IN client' =
            IF response.status # 402
            THEN [phase |-> "returned", seen |-> response]
            ELSE IF payment.threw
            THEN [phase |-> "failed", seen |-> response, error |-> payment.message]
            ELSE [phase |-> "signed", seen |-> response, payment |-> payment.payload]
  /\ UNCHANGED <<cfg, pc, request, payments, verifyCalls, verifyResult, settleCalls,
                 settleState, responses, nextCalls, x402Payment, settled,
                 errorLog, unhandled, server>>

\* step 4: makeRequest(endpoint, method, data, payment)
ClientSubmits ==
  /\ client.phase = "signed"
  /\ ReceiveOf(2, {[path |-> request[1].path, method |-> request[1].method]},
               {JsonHeader(client.payment)})
  /\ client' = [client EXCEPT !.phase = "submitted"]
  /\ UNCHANGED server

\* mutant: a paid request that is refused ends the call without an error
ClientFinishesSilently ==
  /\ client.phase = "submitted"
  /\ pc[2] = "done"
  /\ client' = [client EXCEPT !.phase = "granted"]
  /\ UNCHANGED <<cfg, pc, request, payments, verifyCalls, verifyResult, settleCalls,
                 settleState, responses, nextCalls, x402Payment, settled,
                 errorLog, unhandled, server>>

\* the paid response is back: 200 returns its data, any other status makes
\* axios throw inside the catch block
ClientFinishes ==
  /\ client.phase = "submitted"
  /\ pc[2] = "done"
  /\ client' = [client EXCEPT !.phase =
                  IF responses[2][1].status = 200 THEN "granted" ELSE "refused"]
  /\ UNCHANGED <<cfg, pc, request, payments, verifyCalls, verifyResult, settleCalls,
                 settleState, responses, nextCalls, x402Payment, settled,
                 errorLog, unhandled, server>>

InitClient == InitWith(Engines)

NextClient ==
  \/ ClientRequests
  \/ ClientReads
  \/ ClientSubmits
  \/ ClientFinishes
  \/ \E r \in Req : VerifyReturns(r) \/ SettleReturns(r)

SpecClient == InitClient /\ [][NextClient]_vars

\* the client has read a 402 whose PAYMENT-REQUIRED header is valid
ReadValidHeader ==
  /\ Has(client, "seen")
  /\ client.seen.status = 402
  /\ ~ParsePaymentRequirement(Response(402, client.seen.headers, EmptyObj)).threw

\* C18: a v2 client that has read a 402 with a valid PAYMENT-REQUIRED header
\* has built, from the header's first route and resourceInfo, the credential
\* it submits, whatever the body of the 402 was.
C18_HeaderAloneSuffices ==
  ReadValidHeader =>
    /\ client.phase \in {"signed", "submitted", "granted", "refused"}
    /\ Has(client, "payment")
    /\ LET header == ParsePaymentRequirement(Response(402, client.seen.headers, EmptyObj)).payload
       IN /\ client.payment.paymentPayload.network = header.accepts[1].network
          /\ client.payment.resource = header.resourceInfo.resource

WordBytes == 32

\* a 32-byte value as a hex string: 0x and 64 digits, alternately a and b
Word(a, b) ==
  <<"0", "x">> \o [i \in 1..(2 * WordBytes) |-> IF i % 2 = 1 THEN a ELSE b]

\* what ethers.Signature.from(signature) exposes as sig.r, sig.s, sig.v
Signatures ==
  [r : {Word("0", "0"), Word("f", "e")}, s : {Word("0", "7"), Word("7", "f")},
   v : {27, 28}]

\* ethers.zeroPadValue(hex, 32) on the digits of ethers.toBeHex
ZeroPadValue(digits) ==
  <<"0", "x">> \o [i \in 1..(2 * WordBytes - Len(digits)) |-> "0"] \o digits

\* generateNonce() when Math.floor(Date.now() / 1000) is now
GenerateNonce(now) == ZeroPadValue(NumToHex(now))

\* mutant: the window ends before the clock's second
ValidBeforeEarlier(now, lifetime) == now - lifetime

\* Math.floor(Date.now() / 1000) + lifetime
ValidBefore(now, lifetime) == now + lifetime

\* the fields of the TransferWithAuthorization type
MessageFields == {"from", "to", "value", "validAfter", "validBefore", "nonce"}

\* domain, types and message handed to wallet.signTypedData
TypedData(params) ==
  [domain |-> [name |-> params.domainName, version |-> params.domainVersion,
               chainId |-> params.chainId,
               verifyingContract |-> params.verifyingContract],
   types |-> [TransferWithAuthorization |->
                <<[name |-> "from", type |-> "address"],
                  [name |-> "to", type |-> "address"],
                  [name |-> "value", type |-> "uint256"],
                  [name |-> "validAfter", type |-> "uint256"],
                  [name |-> "validBefore", type |-> "uint256"],
                  [name |-> "nonce", type |-> "bytes32"]>>],
   message |-> [from |-> params.from, to |-> params.to, value |-> params.value,
                validAfter |-> params.validAfter,
                validBefore |-> params.validBefore, nonce |-> params.nonce]]

\* createTransferWithAuthorizationSignature(params), sig being the split
\* signature of the typed data
CreateTransferWithAuthorizationSignature(params, sig) ==
  [from |-> params.from, to |-> params.to, value |-> params.value,
   validAfter |-> params.validAfter, validBefore |-> params.validBefore,
   nonce |-> params.nonce, v |-> sig.v, r |-> sig.r, s |-> sig.s]

\* `${signatureData.r}${signatureData.s.slice(2)}${signatureData.v.toString(16).padStart(2, '0')}`
PackSignatureV2(signatureData) ==
  signatureData.r \o Slice2(signatureData.s) \o PadStart2(NumToHex(signatureData.v))

\* the value of a hex digit
HexValue(c) == CHOOSE i \in 0..15 : HexChar[i + 1] = c

\* ethers.Signature.from(signature) on a 65-byte signature: r, s and v by
\* position
SplitSignature(signature) ==
  [r |-> SubSeq(signature, 1, 2 + 2 * WordBytes),
   s |-> <<"0", "x">> \o SubSeq(signature, 3 + 2 * WordBytes, 2 + 4 * WordBytes),
   v |-> 16 * HexValue(signature[3 + 4 * WordBytes])
         + HexValue(signature[4 + 4 * WordBytes])]

\* parseInt on a string of decimal digits
RECURSIVE ParseInt(_)
ParseInt(digits) ==
  IF Len(digits) = 0 THEN 0
  ELSE 10 * ParseInt(SubSeq(digits, 1, Len(digits) - 1)) + HexValue(digits[Len(digits)])

\* extractChainIdFromCAIP2(caip2Network)
ExtractChainIdFromCAIP2(caip2Network) ==
  LET colons == {i \in 1..Len(caip2Network) : caip2Network[i] = ":"}
  IN IF colons = {7} /\ SubSeq(caip2Network, 1, 6) = <<"e", "i", "p", "1", "5", "5">>
     THEN ParseInt(SubSeq(caip2Network, 8, Len(caip2Network)))
     ELSE JsonNull

\* getNetworkConfig('base-sepolia')
NetworkConfig ==
  [chainId |-> 1337, usdcAddress |-> "0xDE87AF9156a223404885002669D3bE239313Ae33",
   domainName |-> "YZF Token", domainVersion |-> "1"]

\* the v1 parsePaymentRequirement on the body of the v1 challenge
PaymentInfoV1(response, endpoint) ==
  [amount |-> response.body.payment.amount,
   currency |-> response.body.payment.currency,
   network |-> response.body.payment.network,
   payTo |-> response.body.payment.payTo,
   facilitator |-> response.body.payment.facilitator,
   resource |-> <<endpoint>>]

\* the argument of createTransferWithAuthorizationSignature in the v1
\* createPayment
SigningParamsV1(paymentInfo, now) ==
  [from |-> Payer, to |-> paymentInfo.payTo,
   value |-> NumToString((paymentInfo.amount.num * 1000000) \div paymentInfo.amount.den),
   validAfter |-> 0, validBefore |-> ValidBefore(now, 3600),
   nonce |-> GenerateNonce(now),
   domainName |-> NetworkConfig.domainName,
   domainVersion |-> NetworkConfig.domainVersion,
   chainId |-> NetworkConfig.chainId,
   verifyingContract |-> NetworkConfig.usdcAddress]

\* createPayment(paymentInfo), v1 client
CreatePaymentV1(paymentInfo, now, sig) ==
  LET params == SigningParamsV1(paymentInfo, now)
      signatureData == CreateTransferWithAuthorizationSignature(params, sig)
  IN [params |-> params,
      signatureData |-> signatureData,
      credential |-> [x402Version |-> 1, scheme |-> "exact",
                      network |-> "base-sepolia", payment |-> signatureData,
                      resource |-> paymentInfo.resource]]

\* the argument of createTransferWithAuthorizationSignature in createPaymentV2
SigningParamsV2(route, resourceInfo, now) ==
  [from |-> Payer, to |-> route.payTo, value |-> route.amount,
   validAfter |-> 0,
   validBefore |-> ValidBefore(now, IF Has(route, "timeoutSeconds")
                                    THEN route.timeoutSeconds ELSE 3600),
   nonce |-> GenerateNonce(now),
   memo |-> IF Has(route.meta, "memo") THEN route.meta.memo ELSE resourceInfo.resource,
   domainName |-> route.meta.domainName,
   domainVersion |-> route.meta.domainVersion,
   chainId |-> ExtractChainIdFromCAIP2(route.network),
   verifyingContract |-> route.asset]

\* createPaymentV2(route, resourceInfo) at clock second now, the wallet
\* signing with sig
CreatePaymentV2At(route, resourceInfo, now, sig) ==
  LET params == SigningParamsV2(route, resourceInfo, now)
      signatureData == CreateTransferWithAuthorizationSignature(params, sig)
  IN [params |-> params,
      signatureData |-> signatureData,
      credential |->
        [x402Version |-> 2,
         paymentPayload |->
           [x402Version |-> 2, scheme |-> route.scheme, network |-> route.network,
            payload |->
              [authorization |->
                 [from |-> signatureData.from, to |-> signatureData.to,
                  value |-> signatureData.value,
                  validAfter |-> signatureData.validAfter,
                  validBefore |-> signatureData.validBefore,
                  nonce |-> signatureData.nonce],
               signature |-> PackSignatureV2(signatureData)]],
         memo |-> params.memo,
         resource |-> resourceInfo.resource]]

\* the routes a v2 client is offered: those of the engine's challenge, and
\* such a route from a server that states no timeoutSeconds
RoutesOffered(self, req) ==
  LET accepts == ParsePaymentRequirement(SendPaymentRequired(self, req)).payload.accepts
  IN {accepts[i] : i \in 1..Len(accepts)} \cup
     {Drop(accepts[i], "timeoutSeconds") : i \in 1..Len(accepts)}

ProtectedGet == [path |-> "/api/protected", method |-> "GET", header |-> AbsentHeader]

Constructing(now, built) == [phase |-> "constructing", now |-> now, built |-> built]

\* the client's steps leave the server as it is
ServerUnchanged ==
  UNCHANGED <<cfg, pc, request, payments, verifyCalls, verifyResult, settleCalls,
              settleState, responses, nextCalls, x402Payment, settled,
              errorLog, unhandled, server>>

\* a second passes on the client's clock
Tick ==
  /\ client.phase = "constructing"
  /\ client.now < MaxClock
  /\ client' = Constructing(client.now + 1, client.built)
  /\ ServerUnchanged

\* the v1 client answers the v1 challenge: createPayment(paymentInfo)
ConstructV1 ==
  /\ client.phase = "constructing"
  /\ cfg.version = 1
  /\ Len(client.built) < MaxBuilt
  /\ \E sig \in Signatures :
       client' = Constructing(client.now,
         Append(client.built,
           CreatePaymentV1(PaymentInfoV1(SendPaymentRequired(cfg, ProtectedGet),
                                         ProtectedGet.path),
                           client.now, sig)))
  /\ ServerUnchanged

\* the v2 client answers the v2 challenge: createPaymentV2(route, resourceInfo)
ConstructV2 ==
  /\ client.phase = "constructing"
  /\ cfg.version = 2
  /\ Len(client.built) < MaxBuilt
  /\ \E route \in RoutesOffered(cfg, ProtectedGet), sig \in Signatures :
       client' = Constructing(client.now,
         Append(client.built,
           CreatePaymentV2At(route,
             ParsePaymentRequirement(SendPaymentRequired(cfg, ProtectedGet))
               .payload.resourceInfo,
             client.now, sig)))
  /\ ServerUnchanged

InitPayments ==
  /\ cfg \in Engines
  /\ NoRequests
  /\ server = Listening
  /\ client = Constructing(0, <<>>)

NextPayments == Tick \/ ConstructV1 \/ ConstructV2

SpecPayments == InitPayments /\ [][NextPayments]_vars

\* the payments constructed so far
Constructed == 1..Len(client.built)

\* the packed signature is 0x and 130 hex digits (65 bytes) ending in the
\* recovery byte 27 or 28
WellFormedSignature(signature) ==
  /\ Len(signature) = 2 + 2 * (2 * WordBytes + 1)
  /\ SubSeq(signature, 1, 2) = <<"0", "x">>
  /\ SubSeq(signature, Len(signature) - 1, Len(signature)) \in {<<"1", "b">>, <<"1", "c">>}

\* C22: for r and s of 32 bytes and v 27 or 28, the v2 client's packing and
\* the v1 engine's packing give the same 65-byte string r||s||v, it is the
\* signature the credential carries, and splitting it gives back (r, s, v).
C22_SignatureRoundTrip ==
  \A i \in Constructed :
    LET signatureData == client.built[i].signatureData
        credential == client.built[i].credential
        packed == PackSignatureV2(signatureData)
    IN /\ WellFormedSignature(packed)
       /\ packed = signatureData.r \o SubSeq(signatureData.s, 3, Len(signatureData.s))
                   \o (IF signatureData.v = 27 THEN <<"1", "b">> ELSE <<"1", "c">>)
       /\ PackSignature(signatureData) = packed
       /\ SplitSignature(packed) =
            [r |-> signatureData.r, s |-> signatureData.s, v |-> signatureData.v]
       /\ IF credential.x402Version = 2
          THEN credential.paymentPayload.payload.signature = packed
          ELSE PackSignature(credential.payment) = packed

C22_Witness ==
  \E i, j \in Constructed :
    /\ client.built[i].signatureData.v = 27
    /\ client.built[j].signatureData.v = 28
    /\ client.built[i].signatureData.r # client.built[j].signatureData.r
    /\ client.built[i].credential.x402Version = 2

\* C24: two nonces one payer obtains from generateNonce for two payment
\* constructions are different, also within one clock second.
C24_NoncesAreDistinct ==
  \A i, j \in Constructed :
    i # j => client.built[i].params.nonce # client.built[j].params.nonce

\* C25: the typed data that is signed when a memo is supplied differs from
\* the typed data for the same fields without a memo: the memo is part of
\* the signed type and message.
C25_MemoIsSigned ==
  \A i \in Constructed :
    Has(client.built[i].params, "memo") =>
      /\ TypedData(client.built[i].params) # TypedData(Drop(client.built[i].params, "memo"))
      /\ Has(TypedData(client.built[i].params).message, "memo")

\* the authorization a credential carries
AuthorizationIn(credential) ==
  IF credential.x402Version = 2
  THEN credential.paymentPayload.payload.authorization
  ELSE Defined(credential.payment, MessageFields)

\* C27: every authorization the v1 and v2 clients build has
\* validAfter < validBefore, and the authorization in the credential is the
\* message that was signed.
C27_WindowAndSignedFields ==
  \A i \in Constructed :
    LET authorization == AuthorizationIn(client.built[i].credential)
    IN /\ authorization.validAfter < authorization.validBefore
       /\ authorization = TypedData(client.built[i].params).message
       /\ DOMAIN authorization = MessageFields

C27_Witness ==
  \E i, j \in Constructed :
    /\ client.now > 0
    /\ AuthorizationIn(client.built[i].credential).validBefore
         # AuthorizationIn(client.built[j].credential).validBefore
    /\ client.built[i].credential.x402Version = 2

\* C23: no packed signature of a length other than 65 bytes, or with a
\* recovery byte other than 27 or 28, is sent to the facilitator: packing
\* components that are not 32, 32 and 1 bytes of that kind fails instead.
C23_OnlyWellFormedSignaturesSent ==
  \A r \in Req :
    cfg.version = 1 =>
      \A payload \in FacilitatorCalls(r) :
        WellFormedSignature(payload.paymentPayload.payload.signature)

\* C26: the authorization forwarded to the facilitator has the fields of the
\* typed message the payer signed: a memo is forwarded only if it was signed,
\* and never for a route whose token is USDC.
C26_ForwardedFieldsAreSigned ==
  \A r \in Req :
    cfg.version = 2 =>
      \A payload \in FacilitatorCalls(r) :
        LET authorization == payload.paymentPayload.payload.authorization
        IN /\ DOMAIN authorization \subseteq MessageFields
           /\ UsedToken(cfg, payments[r]).contractType = "USDC" =>
                ~Has(authorization, "memo")

(***************************************************************************)
(* Credentials whose terms are not those of the challenge, and inbound     *)
(* connections that close while the verify call is outstanding.            *)
(***************************************************************************)
\* the credential with one field of its authorization replaced
WithAuthField(version, c, k, v) ==
  IF version = 2
  THEN WithAuth(c, Put(c.paymentPayload.payload.authorization, k, v))
  ELSE Put(c, "payment", Put(c.payment, k, v))

CredentialOf(version, n) == IF version = 2 THEN CredentialV2(n) ELSE CredentialV1(n)

\* a credential that authorizes one unit instead of the advertised amount
Underpaying(version) ==
  WithAuthField(version, CredentialOf(version, "0xn1"), "value", NumToString(1))

\* a credential whose validity window is over at every clock second
Expired(version) ==
  WithAuthField(version, CredentialOf(version, "0xn2"), "validBefore", 0)

\* a credential that pays an address other than the configured payee
Misdirected(version) ==
  WithAuthField(version, CredentialOf(version, "0xn2"), "to", "0xOther")

TermsHeaders(version) ==
  {AbsentHeader, JsonHeader(CredentialOf(version, "0xn1")),
   JsonHeader(Underpaying(version)), JsonHeader(Misdirected(version))}

ReceiveTerms(r) ==
  /\ ReceiveOf(r, Routes, TermsHeaders(cfg.version))
  /\ UNCHANGED <<server, client>>

ExpiryHeaders(version) ==
  {AbsentHeader, JsonHeader(CredentialOf(version, "0xn1")),
   JsonHeader(Expired(version))}

ReceiveExpiry(r) ==
  /\ ReceiveOf(r, {[path |-> "/api/protected", method |-> "GET"]},
               ExpiryHeaders(cfg.version))
  /\ UNCHANGED <<server, client>>

InitExpiry == InitWith(Engines)

NextExpiry ==
  \E r \in Req : ReceiveExpiry(r) \/ VerifyReturns(r) \/ SettleReturns(r)

SpecExpiry == InitExpiry /\ [][NextExpiry]_vars

\* the client's connection closes while verifyPayment awaits the facilitator:
\* the middleware listens to no 'close' event, so only the request object
\* records it
ConnectionCloses(r) ==
  /\ pc[r] = "verifying"
  /\ ~Has(request[r], "closed")
  /\ request' = [request EXCEPT ![r] = Put(@, "closed", TRUE)]
  /\ UNCHANGED <<cfg, pc, payments, verifyCalls, verifyResult, settleCalls,
                 settleState, responses, nextCalls, x402Payment, settled,
                 errorLog, unhandled, server, client>>

InitWire == InitWith(Engines)

NextWire ==
  \E r \in Req :
    ReceiveTerms(r) \/ ConnectionCloses(r) \/ VerifyReturns(r) \/ SettleReturns(r)

SpecWire == InitWire /\ [][NextWire]_vars

\* the amount the engine's challenge advertises for the route it resolved
AdvertisedAmount(self, payment) ==
  IF self.version = 2
  THEN IF Has(UsedToken(self, payment), "amount") THEN UsedToken(self, payment).amount
       ELSE DefaultAmount(self)
  ELSE NumToString((self.pricePerRequest.num * 1000000) \div self.pricePerRequest.den)

\* C28: in every verify and settle request maxAmountRequired is the amount
\* the engine advertises for the resolved route, whatever value the
\* credential authorizes.
C28_MaxAmountIsAdvertised ==
  \A r \in Req :
    \A payload \in FacilitatorCalls(r) :
      /\ Has(payload.paymentRequirements, "maxAmountRequired")
      /\ payload.paymentRequirements.maxAmountRequired = AdvertisedAmount(cfg, payments[r])

\* C29: a request whose connection closed while its verify call was
\* outstanding is abandoned: no response is written for it, no settle call
\* is dispatched and the handler is not invoked.
C29_ClosedRequestIsAbandoned ==
  \A r \in Req :
    Has(request[r], "closed") =>
      /\ settleCalls[r] = <<>>
      /\ NotAdmitted(r)
      /\ responses[r] = <<>>

\* the authorization of the request's own credential
OwnAuthorization(r) ==
  IF cfg.version = 2
  THEN request[r].header.value.paymentPayload.payload.authorization
  ELSE request[r].header.value.payment

\* C30: every request whose credential parses and is structurally complete
\* has caused exactly one verify call, carrying its own authorization (payer,
\* nonce, value, window), also when the window is already over and also when
\* an earlier request carried the same credential.
C30_ExactlyOneVerifyCall ==
  \A r \in Req :
    (Arrived(r) /\ request[r].header.kind = "json"
       /\ SchemaValid(cfg.version, request[r].header.value)) =>
      /\ Len(verifyCalls[r]) = 1
      /\ LET sent == verifyCalls[r][1].paymentPayload.payload.authorization
             own == OwnAuthorization(r)
         IN /\ sent.from = own.from
            /\ sent.nonce = own.nonce
            /\ sent.value = own.value
            /\ sent.validAfter = NumToString(own.validAfter)
            /\ sent.validBefore = NumToString(own.validBefore)

C30_Witness ==
  \E r, q \in Req :
    /\ r < q
    /\ pc[r] = "done" /\ Len(verifyCalls[r]) = 1 /\ ReplySaysValid(verifyResult[r])
    /\ cfg.version = 2
    /\ pc[q] = "done" /\ Len(verifyCalls[q]) = 1
    /\ request[q].header.kind = "json"
    /\ OwnAuthorization(q).validBefore <= OwnAuthorization(q).validAfter

(***************************************************************************)
(* Start-up with a missing configuration.                                  *)
(***************************************************************************)
\* C31: server.js started without a token address or without PAY_TO_ADDRESS
\* exits before it constructs the engine and never listens, and no engine
\* that exists has an undefined payee address.
C31_MissingConfigurationIsFatal ==
  /\ (server.program = "server.js" /\ server.phase # "starting"
        /\ (~server.env.payTo \/ Len(SupportedTokens(server.env)) = 0)) =>
       /\ server.phase = "exited"
       /\ cfg = NoEngine
       /\ \A r \in Req : ~Arrived(r)
  /\ cfg # NoEngine => Has(cfg, "payToAddress")

C31_Witness ==
  /\ server.program = "server.js"
  /\ server.phase = "exited"
  /\ Len(SupportedTokens(server.env)) > 0
  /\ ~server.env.payTo
  /\ cfg = NoEngine

(***************************************************************************)
(* What the handler sees.                                                  *)
(***************************************************************************)
\* C32: when the handler has run, req.x402Payment is the credential parsed
\* from that request's header, the one its verify call carried and the
\* facilitator called valid; a request answered 400, 402 or 500 has no
\* req.x402Payment.
C32_HandlerSeesVerifiedCredential ==
  \A r \in Req :
    /\ nextCalls[r] > 0 =>
         /\ x402Payment[r] # NoPayment
         /\ x402Payment[r] = JsonParse(request[r].header).value
         /\ Len(verifyCalls[r]) = 1
         /\ verifyCalls[r][1] =
              VerifyPayload(cfg, x402Payment[r], ResourceOf(cfg, request[r])).payload
         /\ ReplySaysValid(verifyResult[r])
    /\ (\E i \in 1..Len(responses[r]) : responses[r][i].status \in {400, 402, 500}) =>
         x402Payment[r] = NoPayment

C32_Witness ==
  \E r, q \in Req :
    /\ nextCalls[r] = 1 /\ x402Payment[r] # NoPayment
    /\ AnsweredWith(q, 402) /\ Len(verifyCalls[q]) = 1 /\ x402Payment[q] = NoPayment

\* C33: in every verify and settle request paymentRequirements.payTo is the
\* configured payee address, whatever `to` the credential contains.
C33_PayToIsConfiguredPayee ==
  \A r \in Req :
    \A payload \in FacilitatorCalls(r) :
      /\ Has(payload.paymentRequirements, "payTo")
      /\ payload.paymentRequirements.payTo = cfg.payToAddress

(***************************************************************************)
(* Verify replies of every shape: the facilitator, or whatever answers at  *)
(* its URL, returns a 2xx body that need not be {isValid: bool}.           *)
(***************************************************************************)
ReplyBodies ==
  {[isValid |-> TRUE], [valid |-> TRUE], [isValid |-> FALSE], [valid |-> FALSE],
   [isValid |-> FALSE, valid |-> TRUE], [isValid |-> FALSE, valid |-> FALSE],
   EmptyObj, JsonNull}

AnyVerifyReplies == {Data(d) : d \in ReplyBodies} \cup {Failure("verify failed")}

ReplyHeaders(version) ==
  {AbsentHeader} \cup {JsonHeader(CredentialOf(version, n)) : n \in Nonces}

ReceivePaid(r) ==
  /\ ReceiveOf(r, {ProtectedGet}, ReplyHeaders(cfg.version))
  /\ UNCHANGED <<server, client>>

VerifyReturnsAny(r) ==
  /\ VerifyReturnsWith(r, AnyVerifyReplies)
  /\ UNCHANGED <<server, client>>

InitReplies == InitWith(Engines)

NextReplies ==
  \E r \in Req : ReceivePaid(r) \/ VerifyReturnsAny(r) \/ SettleReturns(r)

SpecReplies == InitReplies /\ [][NextReplies]_vars

\* C34: a request whose verify call got a reply body is admitted (settle
\* dispatched, handler run) exactly when the body has isValid or valid equal
\* to true; with every other body it is answered with the 402 rejection and
\* no settle call is made.
C34_ValidExactlyWhenTrue ==
  \A r \in Req :
    (pc[r] = "done" /\ verifyResult[r].kind = "data") =>
      IF ReplySaysValid(verifyResult[r])
      THEN /\ nextCalls[r] = 1
           /\ settleState[r] # "none"
           /\ AnsweredWith(r, 200)
      ELSE /\ responses[r] = <<VerificationFailedResponse>>
           /\ settleCalls[r] = <<>>
           /\ NotAdmitted(r)

\* C34: a request whose verify call got a reply body that is an object is
\* admitted exactly when the body has isValid or valid equal to true, and is
\* otherwise answered with the 402 rejection without a settle call; a reply
\* whose body is null is answered 500, without a settle call and without the
\* handler.
C34_ValidExactlyWhenTrueElseNullIs500 ==
  \A r \in Req :
    (pc[r] = "done" /\ verifyResult[r].kind = "data") =>
      IF verifyResult[r].data = JsonNull
      THEN /\ responses[r] = <<VerificationErrorResponse("TypeError")>>
           /\ settleCalls[r] = <<>>
           /\ NotAdmitted(r)
      ELSE IF ReplySaysValid(verifyResult[r])
      THEN /\ nextCalls[r] = 1
           /\ settleState[r] # "none"
           /\ AnsweredWith(r, 200)
      ELSE /\ responses[r] = <<VerificationFailedResponse>>
           /\ settleCalls[r] = <<>>
           /\ NotAdmitted(r)

C34_Witness ==
  \E r, q \in Req :
    /\ pc[r] = "done" /\ verifyResult[r] = Data(JsonNull) /\ AnsweredWith(r, 500)
    /\ pc[q] = "done" /\ verifyResult[q] = Data(EmptyObj) /\ AnsweredWith(q, 402)

(***************************************************************************)
(* The v2 client's choice of route: createPayment(paymentInfo) signs for   *)
(* the first entry of accepts.                                             *)
(***************************************************************************)
\* mutant: the client pays by the last route offered
SelectLastRoute(paymentInfo) == paymentInfo.accepts[Len(paymentInfo.accepts)]

\* const selectedRoute = paymentInfo.accepts[0]
SelectedRoute(paymentInfo) == paymentInfo.accepts[1]

\* createPayment(paymentInfo), v2, at clock second now, the wallet signing
\* with sig; `offered` keeps the accepts list the client chose from
CreatePaymentAt(paymentInfo, now, sig) ==
  IF ~Has(paymentInfo, "contractMetadata")
  THEN Threw("Contract metadata not provided by server")
  ELSE Built(CreatePaymentV2At(SelectedRoute(paymentInfo), paymentInfo.resourceInfo,
                               now, sig)
             @@ [offered |-> paymentInfo.accepts])

\* engines whose route lists come in either order
SelectEngines ==
  {X402MiddlewareV2(t) : t \in TokenLists \cup {<<UsdcToken, DailyLedgerToken>>}}

\* the v2 client answers the 402 of one of the protected routes
ConstructSelected ==
  /\ client.phase = "constructing"
  /\ Len(client.built) < MaxBuilt
  /\ \E route \in Routes, sig \in Signatures :
       LET req == [path |-> route.path, method |-> route.method, header |-> AbsentHeader]
           paymentInfo == ParsePaymentRequirement(SendPaymentRequired(cfg, req))
           payment == CreatePaymentAt(paymentInfo.payload, client.now, sig)
       IN /\ ~paymentInfo.threw
          /\ ~payment.threw
          /\ client' = Constructing(client.now, Append(client.built, payment.payload))
  /\ ServerUnchanged

InitSelect ==
  /\ cfg \in SelectEngines
  /\ NoRequests
  /\ server = Listening
  /\ client = Constructing(0, <<>>)

NextSelect == Tick \/ ConstructSelected

SpecSelect == InitSelect /\ [][NextSelect]_vars

\* C35: every credential createPayment builds has the network, scheme, value
\* and payee of accepts[0], and the typed data it signs has the domain of
\* accepts[0]: its name and version, the chain id of its network and its
\* asset as verifying contract; accepts[0] is the first configured route.
C35_ClientPaysByFirstRoute ==
  \A i \in Constructed :
    LET b == client.built[i]
        route == b.offered[1]
        token == cfg.supportedTokens[1]
        paymentPayload == b.credential.paymentPayload
    IN /\ RouteDescribes(route, token)
       /\ paymentPayload.network = route.network
       /\ paymentPayload.scheme = route.scheme
       /\ paymentPayload.payload.authorization.value = route.amount
       /\ paymentPayload.payload.authorization.to = route.payTo
       /\ TypedData(b.params).domain =
            [name |-> route.meta.domainName, version |-> route.meta.domainVersion,
             chainId |-> token.chainId, verifyingContract |-> route.asset]
       /\ TypedData(b.params).message.to = route.payTo
       /\ TypedData(b.params).message.value = route.amount

C35_Witness ==
  \E i \in Constructed :
    /\ Len(client.built[i].offered) = 2
    /\ client.built[i].offered[1].network # client.built[i].offered[2].network
    /\ client.built[i].offered[1].meta.contractType = "USDC"
    /\ client.built[i].credential.paymentPayload.network = Caip2(UsdcChainId)

(***************************************************************************)
(* One requestProtectedResource call of either client against its engine.  *)
(***************************************************************************)
\* steps 2 and 3 of the v1 client: the 402 body is read and the credential
\* created and signed
ClientReadsV1 ==
  /\ client.phase = "waiting"
  /\ pc[1] = "done"
  /\ cfg.version = 1
  /\ \E sig \in Signatures :
       LET response == responses[1][1]
       IN client' =
            IF response.status # 402
            THEN [phase |-> "returned", seen |-> response]
            ELSE [phase |-> "signed", seen |-> response,
                  payment |-> CreatePaymentV1(PaymentInfoV1(response, request[1].path),
                                              0, sig).credential]
  /\ ServerUnchanged

InitCalls == InitWith(Engines)

NextCalls ==
  \/ ClientRequests
  \/ ClientReads
  \/ ClientReadsV1
  \/ ClientSubmits
  \/ ClientFinishes
  \/ \E r \in Req : VerifyReturns(r) \/ SettleReturns(r)

SpecCalls == InitCalls /\ [][NextCalls]_vars

\* C36: one requestProtectedResource call causes at most two requests: the
\* first without a credential; the second only after the first was answered
\* 402, carrying the one credential the call built after that 402; the call
\* ends with an error exactly when the paid request is not answered 200, and
\* no further request follows.
C36_AtMostOnePaidRequest ==
  /\ \A r \in Req : r > 2 => ~Arrived(r)
  /\ Arrived(1) => request[1].header = AbsentHeader
  /\ Has(client, "payment") => (pc[1] = "done" /\ AnsweredWith(1, 402))
  /\ Arrived(2) =>
       /\ Has(client, "payment")
       /\ request[2].header = JsonHeader(client.payment)
       /\ request[2].path = request[1].path
       /\ request[2].method = request[1].method
  /\ client.phase \in {"returned", "failed"} => ~Arrived(2)
  /\ client.phase \in {"granted", "refused"} =>
       /\ pc[2] = "done"
       /\ Len(responses[2]) = 1
       /\ (client.phase = "refused") = (responses[2][1].status # 200)

C36_Witness ==
  /\ client.phase = "refused"
  /\ AnsweredWith(1, 402)
  /\ Len(responses[2]) = 1 /\ responses[2][1].status \in {402, 500}

(***************************************************************************)
(* Requests share nothing but the engine's configuration.                  *)
(***************************************************************************)
\* the two requests are the same: URL, method and credential header
SameRequest(r, q) ==
  /\ request[r].path = request[q].path
  /\ request[r].method = request[q].method
  /\ request[r].header.kind = request[q].header.kind
  /\ Has(request[r].header, "value") => request[r].header.value = request[q].header.value

\* everything the engine did for the two requests is the same
SameOutcome(r, q) ==
  /\ responses[r] = responses[q]
  /\ nextCalls[r] = nextCalls[q]
  /\ x402Payment[r] = x402Payment[q]
  /\ verifyCalls[r] = verifyCalls[q]
  /\ settleCalls[r] = settleCalls[q]

\* the challenge of the engine for this URL and method
ChallengeFor(req) ==
  IF cfg.version = 2 THEN SendPaymentRequiredV2(cfg, req, ResourceV2(req))
  ELSE SendPaymentRequiredV1(cfg, req)

OutcomeIsOwn ==
  /\ \A r, q \in Req :
       (pc[r] = "done" /\ pc[q] = "done" /\ SameRequest(r, q)
          /\ verifyResult[r] = verifyResult[q]) => SameOutcome(r, q)
  /\ \A r \in Req :
       (Arrived(r) /\ Falsy(request[r].header)) =>
         responses[r] = <<ChallengeFor(request[r])>>

\* C37: no step changes the engine's configuration; two requests with the
\* same URL, method and header whose verify calls got the same reply have
\* the same outcome; and the challenge for a URL and method is a function of
\* the configuration, whatever other requests are in flight.
C37_ConfigurationIsReadOnly == [](OutcomeIsOwn) /\ [][cfg' = cfg]_vars

C37_Witness ==
  \E r, q \in Req :
    /\ r # q
    /\ pc[r] = "verifying"
    /\ pc[q] = "done" /\ request[q].header = AbsentHeader /\ AnsweredWith(q, 402)

(***************************************************************************)
(* Termination.  axios.post /verify carries timeout: 10000, so every       *)
(* verify call resolves or rejects: the step that ends the await is taken  *)
(* whenever it stays possible (weak fairness per request).                 *)
(***************************************************************************)
LiveHeaders(version) ==
  {AbsentHeader, TextHeader, JsonHeader(JsonNull),
   JsonHeader(CredentialOf(version, "0xn1"))}

ReceiveLive(r) ==
  /\ ReceiveOf(r, Routes, LiveHeaders(cfg.version))
  /\ UNCHANGED <<server, client>>

InitLive == InitWith(Engines)

NextLive == \E r \in Req : ReceiveLive(r) \/ VerifyReturns(r) \/ SettleReturns(r)

SpecLive ==
  /\ InitLive /\ [][NextLive]_vars
  /\ \A r \in Req : WF_vars(VerifyReturns(r))

\* the request has its one terminal outcome: one response, which is the
\* handler's exactly when next() was called
Terminal(r) ==
  /\ pc[r] = "done"
  /\ Len(responses[r]) = 1
  /\ responses[r][1].status \in {200, 400, 402, 500}
  /\ (responses[r][1].status = 200) = (nextCalls[r] = 1)
  /\ nextCalls[r] <= 1

\* C38: every request that has arrived eventually has exactly one terminal
\* outcome (402 challenge, 400, 402 rejection, 500 or the handler's
\* response), provided its verify call eventually returns; at no time has a
\* request two responses, and a finished request always has one.
C38_EveryRequestTerminates ==
  /\ \A r \in Req : Arrived(r) ~> Terminal(r)
  /\ [](\A r \in Req : /\ Len(responses[r]) <= 1
                        /\ pc[r] = "done" => Terminal(r))

C38_Witness ==
  \E r, q \in Req :
    /\ Terminal(r) /\ verifyResult[r].kind = "failure" /\ AnsweredWith(r, 500)
    /\ Terminal(q) /\ AnsweredWith(q, 200)

(***************************************************************************)
(* The resource a credential is verified against.                          *)
(***************************************************************************)
\* the resource the engine's challenge names for this request: resourceInfo
\* of the v2 header; resource="..." of the v1 X-Accept-Payment header, as a
\* string of one piece
AdvertisedResource(req) ==
  IF cfg.version = 2
  THEN ParsePaymentRequirement(ChallengeFor(req)).payload.resourceInfo.resource
  ELSE LET parts == ChallengeFor(req).headers.XAcceptPayment
           i == CHOOSE j \in 2..Len(parts) : parts[j].name = "resource"
       IN <<parts[i].value>>

\* C39: the resource in paymentRequirements of every verify and settle
\* request is the resource the challenge for the same URL and method names.
C39_ResourceIsAdvertised ==
  \A r \in Req :
    \A payload \in FacilitatorCalls(r) :
      payload.paymentRequirements.resource = AdvertisedResource(request[r])

(***************************************************************************)
(* The Besu RPC proxy (unnamed/part_000).  `server` is the proxy process:  *)
(* the exchanges it has begun, each with the inbound request, what was     *)
(* written to the upstream request and what was written to res.  A JSON    *)
(* value is a record: an RPC request object, [array |-> ...] for a batch,  *)
(* [text |-> ...] for a string parameter, JsonNull.                        *)
(***************************************************************************)
CallObjects ==
  {[to |-> "0xc", input |-> "0xab"],
   [to |-> "0xc", data |-> "0xcd"],
   [to |-> "0xc", input |-> "0xab", data |-> "0xcd"],
   [to |-> "0xc"],
   [to |-> "0xc", input |-> ""]}

RpcRequests ==
  {[id |-> 1, method |-> m, params |-> <<c>>] :
     m \in {"eth_call", "eth_estimateGas", "eth_sendTransaction"}, c \in CallObjects}
  \cup
  {[id |-> 1, method |-> "eth_call"],
   [id |-> 1, method |-> "eth_call", params |-> <<>>],
   [id |-> 1, method |-> "eth_blockNumber", params |-> <<>>],
   [id |-> 1, method |-> "eth_getCode",
    params |-> <<[text |-> "0xc"], [text |-> "latest"]>>],
   [id |-> 1, method |-> "eth_getCode"],
   [id |-> 1, method |-> "eth_sendRawTransaction", params |-> <<[text |-> "0xf8"]>>],
   [id |-> 1, method |-> "eth_sendRawTransaction"]}

Batches ==
  {[array |-> <<>>],
   [array |-> <<[id |-> 1, method |-> "eth_call",
                 params |-> <<[to |-> "0xc", input |-> "0xab"]>>],
                [id |-> 1, method |-> "eth_blockNumber", params |-> <<>>]>>],
   [array |-> <<[id |-> 1, method |-> "eth_blockNumber", params |-> <<>>],
                [id |-> 1, method |-> "eth_estimateGas",
                 params |-> <<[to |-> "0xc", input |-> "0xab"]>>]>>],
   [array |-> <<[id |-> 1, method |-> "eth_call",
                 params |-> <<[to |-> "0xc", data |-> "0xcd"]>>]>>]}

\* the bodies a client posts: a text that is no JSON, or a JSON text
ProxyBodies ==
  {[kind |-> "text"]} \cup
  {[kind |-> "json", value |-> v] : v \in RpcRequests \cup Batches \cup {JsonNull}}

\* a JavaScript string that is defined and not empty
Truthy(o, k) == Has(o, k) /\ o[k] # ""

\* if (callObject.input && !callObject.data) { data = input; delete input }
ConvertInput(callObject) ==
  IF Truthy(callObject, "input") /\ ~Truthy(callObject, "data")
  THEN Put(Drop(callObject, "input"), "data", callObject.input)
  ELSE callObject

\* the property reads of the forEach body that throw TypeError: r.method of
\* null, r.params[0] of a request without params
LoggingThrows(r) ==
  IF r = JsonNull THEN TRUE
  ELSE IF ~Has(r, "method") THEN FALSE
  ELSE IF r.method \in {"eth_call", "eth_estimateGas"}
          /\ Has(r, "params") /\ Len(r.params) > 0
       THEN FALSE
  ELSE r.method \in {"eth_sendRawTransaction", "eth_getCode"} /\ ~Has(r, "params")

\* the forEach body on one request object that does not throw
Rewrite(r) ==
  IF Has(r, "method") /\ r.method \in {"eth_call", "eth_estimateGas"}
     /\ Has(r, "params") /\ Len(r.params) > 0
  THEN [r EXCEPT !.params = [@ EXCEPT ![1] = ConvertInput(@)]]
  ELSE r

\* Array.isArray(request) ? request : [request]
RequestsOf(value) == IF Has(value, "array") THEN value.array ELSE <<value>>

\* the 'end' handler up to proxyReq.write: the text written upstream, or
\* the error its try block caught
Forward(body) ==
  IF body.kind = "text" THEN Threw("SyntaxError")
  ELSE LET requests == RequestsOf(body.value)
       IN IF \E i \in 1..Len(requests) : LoggingThrows(requests[i])
          THEN Threw("TypeError")
          ELSE LET rewritten == [i \in 1..Len(requests) |-> Rewrite(requests[i])]
               IN Built(JsonStringify(IF Has(body.value, "array")
                                      THEN [array |-> rewritten]
                                      ELSE rewritten[1]))

ProxyResponse(status, body) == [status |-> status, body |-> body]

Exchange(method, body, upstream, forwarded, written) ==
  [method |-> method, body |-> body, upstream |-> upstream,
   forwarded |-> forwarded, responses |-> written]

ProxyUnchanged ==
  UNCHANGED <<cfg, pc, request, payments, verifyCalls, verifyResult, settleCalls,
              settleState, responses, nextCalls, x402Payment, settled,
              errorLog, unhandled, client>>

\* http.createServer's handler, with the 'data' and 'end' events of the
\* inbound request
ProxyReceives ==
  /\ server.phase = "proxy"
  /\ Len(server.exchanges) < NumReq
  /\ \E method \in {"POST", "GET"}, body \in ProxyBodies :
       LET forward == Forward(body)
           exchange ==
             IF method # "POST"
             THEN Exchange(method, body, "none", <<>>,
                           <<ProxyResponse(405, "Method Not Allowed")>>)
             ELSE IF forward.threw
             THEN Exchange(method, body, "none", <<>>,
                           <<ProxyResponse(400, "Bad Request")>>)
             ELSE Exchange(method, body, "pending", <<forward.payload>>, <<>>)
       IN server' = [server EXCEPT !.exchanges = Append(@, exchange)]
  /\ ProxyUnchanged

\* the callback of transport.request: Besu's status and body are piped to res
UpstreamReplies(i) ==
  /\ server.phase = "proxy"
  /\ i \in 1..Len(server.exchanges)
  /\ server.exchanges[i].upstream = "pending"
  /\ \E status \in {200, 500} :
       server' = [server EXCEPT !.exchanges[i] =
                    [@ EXCEPT !.upstream = "replied",
                              !.responses = Append(@, ProxyResponse(status, "upstream"))]]
  /\ ProxyUnchanged

\* proxyReq.on('error'): 502
UpstreamFails(i) ==
  /\ server.phase = "proxy"
  /\ i \in 1..Len(server.exchanges)
  /\ server.exchanges[i].upstream = "pending"
  /\ server' = [server EXCEPT !.exchanges[i] =
                  [@ EXCEPT !.upstream = "failed",
                            !.responses = Append(@, ProxyResponse(502, "Bad Gateway"))]]
  /\ ProxyUnchanged

InitProxy ==
  /\ cfg = NoEngine
  /\ NoRequests
  /\ server = [phase |-> "proxy", exchanges |-> <<>>]
  /\ client = ClientIdle

NextProxy ==
  \/ ProxyReceives
  \/ \E i \in Req : UpstreamReplies(i) \/ UpstreamFails(i)

SpecProxy == InitProxy /\ [][NextProxy]_vars

\* what is to be forwarded for one request object: data = input and no
\* input for an eth_call or eth_estimateGas whose call object has input and
\* no data, the object itself otherwise
ExpectedRequest(r) ==
  IF r # JsonNull /\ Has(r, "method") /\ r.method \in {"eth_call", "eth_estimateGas"}
     /\ Has(r, "params") /\ Len(r.params) > 0
     /\ Has(r.params[1], "input") /\ ~Has(r.params[1], "data")
  THEN [r EXCEPT !.params = [@ EXCEPT ![1] = Put(Drop(@, "input"), "data", @.input)]]
  ELSE r

ExpectedPayload(value) ==
  IF value # JsonNull /\ Has(value, "array")
  THEN [array |-> [i \in 1..Len(value.array) |-> ExpectedRequest(value.array[i])]]
  ELSE ExpectedRequest(value)

\* C40: every exchange has at most one response and, once it is over,
\* exactly one: 405 for a non-POST, 400 for a body that is no JSON, and for
\* every body that is JSON the payload is forwarded (a batch as a batch of
\* the same length and order, only input renamed to data) and the response
\* is the upstream's, or 502 when the upstream request failed.
C40_ProxyForwardsOnce ==
  \A i \in 1..Len(server.exchanges) :
    LET e == server.exchanges[i]
    IN /\ Len(e.responses) <= 1
       /\ e.upstream # "pending" => Len(e.responses) = 1
       /\ IF e.method # "POST"
          THEN e.forwarded = <<>> /\ e.responses[1].status = 405
          ELSE IF e.body.kind = "text"
          THEN e.forwarded = <<>> /\ e.responses[1].status = 400
          ELSE /\ e.forwarded = <<JsonStringify(ExpectedPayload(e.body.value))>>
               /\ e.upstream = "replied" => e.responses[1].body = "upstream"
               /\ e.upstream = "failed" => e.responses[1].status = 502

====
